---- MODULE Spec2Model ----
(***************************************************************************)
(* A model of the inf-planet terrain world: the height field, the chunk    *)
(* streaming of world.js, the frame loop of main.js and the player physics *)
(* integrator.  Real numbers of the program are fixed-point integers with  *)
(* SCALE units per world unit; divisions round toward minus infinity.      *)
(***************************************************************************)
EXTENDS Integers, Sequences, FiniteSets, TLC

VARIABLES
    noise2D,          \* world.js: the noise table drawn by createNoise2D() at module load
    otherRun,         \* the noise table drawn by a second, independent run of the program
    heightLog,        \* the value getTerrainHeight returned first in this run, per queried point
    lastHeight,       \* <<point, value in this run, value in the other run>> of the last query
    heightCalls,      \* number of getTerrainHeight queries made from outside so far (capped)
    playerPos,        \* physics.js: playerPos
    velocity,         \* physics.js: velocity
    onGround,         \* physics.js: onGround
    isUnderwater,     \* physics.js: isUnderwater
    currentHeight,    \* physics.js: currentHeight, the collision height
    flyVelocity,      \* physics.js: flyVelocity
    keys,             \* input.js: keys
    isLocked,         \* controls.isLocked
    camera,           \* the orientation of the camera
    activeChunks,     \* world.js: activeChunks, key -> chunk group
    scene,            \* keys of the chunk groups that are children of the scene
    builtNow,         \* keys createChunk was called for in the last updateChunks call
    buildOrder,       \* the coordinates createChunk was called for in that call, in the order of the calls
    evictedNow,       \* keys deleted from activeChunks in the last updateChunks call
    disposedNow,      \* geometries disposed in the last updateChunks call
    chunksUpdated,    \* main.js: the value updateChunks returned to the frame loop
    rng,              \* the stream Math.random yields in this run
    calls,            \* number of updateChunks calls so far (capped)
    stillCalls,       \* number of consecutive calls with an unmoved observer (capped)
    obsVel,           \* displacement of the observer per frame in the straight-line scenario
    pc,               \* main.js frameLoop: the stage the running frame is at, 0 between frames
    physicsAccumulator, \* main.js: physicsAccumulator
    stepsThisFrame,   \* main.js: stepsThisFrame
    dt,               \* main.js: dt of the running frame
    frameLog,         \* the calls the running frame has made, in order
    frames,           \* number of frames started
    prevPlayerPos,    \* main.js: prevPlayerPos
    cameraPosition,   \* camera.position
    particleSettings, \* config.js: PARTICLE_SETTINGS
    particleUpdateOffset,      \* airParticles.js: particleUpdateOffset
    particleClusterIds,        \* airParticles.js: particleClusterIds, particle i at index i + 1
    particlePositions,         \* airParticles.js: particlePositions, as vectors
    particleVelocities,        \* airParticles.js: particleVelocities, as vectors
    particleClusterOffsets,    \* airParticles.js: particleClusterOffsets, cluster c at index c + 1
    particleClusterDrift,      \* airParticles.js: particleClusterDrift
    particleClusterDriftTimer, \* airParticles.js: particleClusterDriftTimer
    particleClusterSwirl,      \* airParticles.js: particleClusterSwirl
    wind,             \* airParticles.js: _globalWind, _windTarget, windTimer
    randomCalls,      \* the number of the stream the next Math.random() of the particle system yields
    updatedLog,       \* the particles the last updateAirParticles calls updated, one entry per call
    respawnedLog,     \* the particles the last updateAirParticles call respawned
    colourSample,     \* the last elevation coloured, with the band of the mesh and of the map
    keyboard,         \* the keys physically down, and the presses of the fly key so far
    heightCache,      \* airParticles.js: _heightCache, key -> height, as the lookups made one by one fill it
    sampled,          \* the last lookup of the height cache: the point asked for and the height returned
    tileCache,        \* MapRenderer.js: tileCache, key -> tile
    generationQueue,  \* MapRenderer.js: generationQueue
    mapView,          \* LargeMap.js: viewX, viewZ, scale, and the place of the view in the zoom sequence
    generatedNow      \* the keys generateTile was called for in the last draw, in order

terrainVars == <<noise2D, otherRun, heightLog, lastHeight, heightCalls>>
chunkVars == <<activeChunks, scene, builtNow, buildOrder, evictedNow, disposedNow, chunksUpdated,
               rng, calls, stillCalls, obsVel>>
physVars == <<velocity, onGround, isUnderwater, currentHeight, flyVelocity>>
inputVars == <<keys, isLocked, camera>>
frameVars == <<pc, physicsAccumulator, stepsThisFrame, dt, frameLog, frames, prevPlayerPos>>
airVars == <<particleSettings, particleUpdateOffset, particleClusterIds, particlePositions,
             particleVelocities, particleClusterOffsets, particleClusterDrift,
             particleClusterDriftTimer, particleClusterSwirl, wind, randomCalls, updatedLog,
             respawnedLog>>
cacheVars == <<heightCache, sampled, tileCache, generationQueue, mapView, generatedNow>>
vars == <<terrainVars, playerPos, chunkVars, physVars, inputVars, frameVars, airVars,
          cameraPosition, colourSample, keyboard, cacheVars>>

(***************************************************************************)
(* Numbers                                                                 *)
(***************************************************************************)
SCALE == 1000

Abs(a) == IF a < 0 THEN -a ELSE a
Max(a, b) == IF a >= b THEN a ELSE b
Min(a, b) == IF a <= b THEN a ELSE b

\* the element of a singleton set: { e(v) : v \in {d} } names the value d
\* by v, so that d is computed once however often e uses it
TheOne(S) == CHOOSE v \in S : TRUE

RECURSIVE SqrtIter(_, _)
SqrtIter(n, g) ==
    TheOne({ IF h >= g THEN g ELSE SqrtIter(n, h) : h \in { (g + n \div g) \div 2 } })

\* Math.sqrt on a non-negative integer, rounded down (Newton's iteration
\* from a first guess that is not below the root)
Isqrt(n) ==
    IF n = 0 THEN 0
    ELSE SqrtIter(n, IF n < 10000 THEN 100
                     ELSE IF n < 1000000 THEN 1000
                     ELSE IF n < 100000000 THEN 10000 ELSE 46341)

\* Math.sqrt on a fixed-point number
Sqrt(a) == Isqrt(a * SCALE)

\* Math.floor(a / b) for a fixed-point a and an integer b > 0
Floor(a, b) == a \div (b * SCALE)

(***************************************************************************)
(* config.js                                                               *)
(***************************************************************************)
CHUNK_SIZE == 60
RENDER_DISTANCE == 3
TREE_COUNT == 10

(***************************************************************************)
(* Bounds of the model                                                     *)
(***************************************************************************)
MaxCalls == 2           \* updateChunks calls counted before the counter saturates
WorldSteps == 1         \* the walking observer stays within this many half chunks of the origin
NoiseTables == 2        \* noise tables a run can draw, out of AllNoiseTables
MaxHeightCalls == 3     \* getTerrainHeight queries counted before the counter saturates

(***************************************************************************)
(* The height field (world.js).  createNoise2D() of the simplex-noise      *)
(* package builds a permutation table from Math.random and returns a       *)
(* function of that table: gradient noise, 0 on the lattice, within        *)
(* [-1, 1], continuous.  The table is a permutation of 0 .. 7 here and the *)
(* noise is gradient noise on the unit square lattice.                     *)
(***************************************************************************)
AllNoiseTables ==
    << <<0, 1, 2, 3, 4, 5, 6, 7>>,
       <<3, 6, 1, 4, 7, 0, 5, 2>>,
       <<5, 2, 7, 0, 3, 6, 1, 4>>,
       <<6, 3, 0, 5, 2, 7, 4, 1>> >>

createNoise2D == { AllNoiseTables[i] : i \in 1 .. Min(NoiseTables, Len(AllNoiseTables)) }

Grad2 == << <<1, 1>>, <<-1, 1>>, <<1, -1>>, <<-1, -1>>,
            <<1, 0>>, <<-1, 0>>, <<0, 1>>, <<0, -1>> >>

NoiseHash(perm, i, j) == perm[((i + perm[(j % 8) + 1]) % 8) + 1]

\* the gradient at lattice corner (i, j) dotted with the offset (du, dv) from it
Corner(perm, i, j, du, dv) ==
    LET g == Grad2[NoiseHash(perm, i, j) + 1] IN g[1] * du + g[2] * dv

\* the blend of the four corners around (x, z)
Blend(perm, x, z) ==
    LET i == x \div SCALE
        j == z \div SCALE
        u == x % SCALE
        v == z % SCALE
        a == ((SCALE - u) * Corner(perm, i, j, u, v)
              + u * Corner(perm, i + 1, j, u - SCALE, v)) \div SCALE
        b == ((SCALE - u) * Corner(perm, i, j + 1, u, v - SCALE)
              + u * Corner(perm, i + 1, j + 1, u - SCALE, v - SCALE)) \div SCALE
    IN ((SCALE - v) * a + v * b) \div SCALE

\* the noise is steep next to a lattice point and stays within [-1, 1]
Noise(perm, x, z) == Max(-SCALE, Min(SCALE, 4 * Blend(perm, x, z)))

\* Math.pow(a, 1.5) for a fixed-point a in [0, 1]
Pow15(a) == (a * Sqrt(a)) \div SCALE

TerrainHeight(perm, x, z) ==
    LET n == Noise(perm, (x * 8) \div 1000, (z * 8) \div 1000)
        ridge == Pow15(SCALE - Abs(n)) * 15
        detail == Noise(perm, (x * 40) \div 1000, (z * 40) \div 1000) * 4
    IN ridge + detail - 10 * SCALE

\* a noise table drawn anew for every query
TerrainNoiseRedrawn == AllNoiseTables[(heightCalls % 2) + 1]

\* the noise table getTerrainHeight reads: the module-level constant
TerrainNoise == noise2D

getTerrainHeight(x, z) == TerrainHeight(TerrainNoise, x, z)

(***************************************************************************)
(* Chunk keys (world.js:173, 181): `${cx},${cz}` and key.split(',').map(Number) *)
(***************************************************************************)
Digits == <<"0", "1", "2", "3", "4", "5", "6", "7", "8", "9">>

RECURSIVE NatStr(_)
NatStr(n) ==
    IF n < 10 THEN <<Digits[n + 1]>>
    ELSE Append(NatStr(n \div 10), Digits[(n % 10) + 1])

\* String(n) for an integer n
NumStr(n) == IF n < 0 THEN <<"-">> \o NatStr(-n) ELSE NatStr(n)

ChunkKey(cx, cz) == NumStr(cx) \o <<",">> \o NumStr(cz)

DigitVal(c) == CHOOSE d \in 0 .. 9 : Digits[d + 1] = c

RECURSIVE StrNat(_)
StrNat(s) ==
    IF s = <<>> THEN 0
    ELSE 10 * StrNat(SubSeq(s, 1, Len(s) - 1)) + DigitVal(s[Len(s)])

\* Number(s) for the decimal text of an integer
StrNum(s) == IF s # <<>> /\ s[1] = "-" THEN -StrNat(Tail(s)) ELSE StrNat(s)

\* key.split(',').map(Number), first two pieces
ParseKey(key) ==
    LET i == CHOOSE i \in 1 .. Len(key) :
                 key[i] = "," /\ \A j \in 1 .. (i - 1) : key[j] # ","
    IN <<StrNum(SubSeq(key, 1, i - 1)), StrNum(SubSeq(key, i + 1, Len(key)))>>

(***************************************************************************)
(* Chunk generation (world.js createChunk).  rnd is the stream Math.random *)
(* yields during the call: a sequence of draws, read cyclically, each draw *)
(* the numbers in [0, 1) one placement attempt consumes.                   *)
(***************************************************************************)
AllRandomStreams ==
    << << [u1 |-> 530, u2 |-> 520, u3 |-> 999, u4 |-> 999],
          [u1 |-> 910, u2 |-> 120, u3 |-> 0,   u4 |-> 0],
          [u1 |-> 550, u2 |-> 475, u3 |-> 300, u4 |-> 500] >>,
       << [u1 |-> 500, u2 |-> 455, u3 |-> 667, u4 |-> 500],
          [u1 |-> 90,  u2 |-> 870, u3 |-> 500, u4 |-> 250] >>,
       << [u1 |-> 462, u2 |-> 480, u3 |-> 700, u4 |-> 900],
          [u1 |-> 250, u2 |-> 750, u3 |-> 100, u4 |-> 100] >> >>

RandomStreams == 2      \* streams Math.random can yield, out of AllRandomStreams

MathRandom == { AllRandomStreams[i] : i \in 1 .. Min(RandomStreams, Len(AllRandomStreams)) }

\* dx*dx + dz*dz < r*r, without forming squares of far-apart points
Within(dx, dz, r) == Abs(dx) < r /\ Abs(dz) < r /\ dx * dx + dz * dz < r * r

\* world.js:85-87: the separation test of a candidate at (rx, rz) against a placed tree
TooClose(t, rx, rz) == Within(t.x - rx, t.z - rz, 5 * SCALE)

\* world.js:73-79, 94-100: what one placement attempt computes from its draws
Candidate(cx, cz, d) ==
    LET rx == (d.u1 - SCALE \div 2) * CHUNK_SIZE
        rz == (d.u2 - SCALE \div 2) * CHUNK_SIZE
        wx == cx * CHUNK_SIZE * SCALE + rx
        wz == cz * CHUNK_SIZE * SCALE + rz
        h == getTerrainHeight(wx, wz)
        dense == Noise(TerrainNoise, (wx * 20) \div 1000, (wz * 20) \div 1000) >= 200
        scale == 800 + (d.u3 * 6) \div 10
    IN [ rx |-> rx, rz |-> rz, h |-> h,
         dense |-> dense,
         slope |-> IF dense THEN Abs(h - getTerrainHeight(wx + 2 * SCALE, wz)) ELSE 0,
         tree |-> [ x |-> rx + cx * CHUNK_SIZE * SCALE,
                    z |-> rz + cz * CHUNK_SIZE * SCALE,
                    s |-> scale,
                    hs |-> (scale * (800 + (d.u4 * 4) \div 10)) \div SCALE ] ]

RECURSIVE Candidates(_, _, _, _)
Candidates(cx, cz, rnd, k) ==
    IF k > Len(rnd) THEN <<>>
    ELSE <<Candidate(cx, cz, rnd[k])>> \o Candidates(cx, cz, rnd, k + 1)

\* world.js:81-114, one placement attempt: the tree list after it
PlaceTree(cand, trees) ==
    IF ~cand.dense THEN trees
    ELSE IF \E k \in 1 .. Len(trees) : TooClose(trees[k], cand.rx, cand.rz) THEN trees
    ELSE IF cand.h > -4 * SCALE /\ cand.slope < 1500 THEN Append(trees, cand.tree)
    ELSE trees

\* world.js:70-115
RECURSIVE TreeLoop(_, _, _)
TreeLoop(cands, i, trees) ==
    IF i >= TREE_COUNT * 3 \/ Len(trees) >= TREE_COUNT THEN trees
    ELSE TheOne({ TreeLoop(cands, j, t) :
                    j \in { i + 1 }, t \in { PlaceTree(cands[(i % Len(cands)) + 1], trees) } })

\* world.js:22-165: the group createChunk returns; the grass samples
\* (world.js:119-144) fall on the points of the stream
ChunkGroup(cx, cz, cands, existingTrees) ==
    LET hs == { cands[k].h : k \in 1 .. Len(cands) }
    IN [ cx |-> cx, cz |-> cz,
         trees |-> existingTrees,
         meshes |-> {"terrain"}
                    \cup (IF Len(existingTrees) > 0 THEN {"trunk", "leaves"} ELSE {})
                    \cup (IF \E h \in hs : h >= 0 THEN {"grass"} ELSE {})
                    \cup (IF \E h \in hs : h < 0 /\ h > -5 * SCALE THEN {"grassDry"} ELSE {}) ]

createChunk(cx, cz, rnd) ==
    TheOne({ TheOne({ ChunkGroup(cx, cz, cands, existingTrees) :
                      existingTrees \in { TreeLoop(cands, 0, <<>>) } }) :
             cands \in { Candidates(cx, cz, rnd, 1) } })

(***************************************************************************)
(* Chunk streaming (world.js updateChunks)                                 *)
(***************************************************************************)
\* world.js:168-169
CurrentChunk(pos) == <<Floor(pos.x, CHUNK_SIZE), Floor(pos.z, CHUNK_SIZE)>>

\* world.js:171-172: the coordinates the build loop visits
RingCoords(c) ==
    { <<c[1] + x, c[2] + z>> : x \in (-RENDER_DISTANCE) .. RENDER_DISTANCE,
                               z \in (-RENDER_DISTANCE) .. RENDER_DISTANCE }

\* a build loop without the has() test
NeedsBuildAlways(reg, key) == TRUE

\* world.js:174
NeedsBuild(reg, key) == key \notin DOMAIN reg

\* world.js:182: Math.sqrt((kx - currentChunkX)**2 + (kz - currentChunkZ)**2);
\* far chunks are measured in whole chunks, to keep the squares small
ChunkDist(k, c) ==
    LET dsq == (k[1] - c[1]) * (k[1] - c[1]) + (k[2] - c[2]) * (k[2] - c[2])
    IN IF dsq > 2000 THEN Isqrt(dsq) * SCALE ELSE Isqrt(dsq * SCALE * SCALE)

\* an eviction test one chunk too lenient
ShouldEvictLate(k, c) == ChunkDist(k, c) > (RENDER_DISTANCE + 2) * SCALE

\* world.js:183
ShouldEvict(k, c) == ChunkDist(k, c) > (RENDER_DISTANCE + 1) * SCALE

\* world.js:185-187: the geometries mesh.traverse disposes for one group;
\* the terrain PlaneGeometry is the group's own, the instanced meshes use
\* the shared geometries of resources.js
MeshGeometry(key, mesh) ==
    CASE mesh = "terrain" -> <<"PlaneGeometry", key>>
      [] mesh = "trunk" -> <<"trunkGeo", <<>> >>
      [] mesh = "leaves" -> <<"leavesGeo", <<>> >>
      [] OTHER -> <<"grassGeo", <<>> >>

GroupGeometries(key, group) == { MeshGeometry(key, m) : m \in group.meshes }

\* world.js:191: the function ends without a return statement
UpdateChunksResult(built, evicted) == "undefined"

\* world.js:171-172: the coordinates the two nested loops visit, in the order
\* they visit them: x in the outer loop, z in the inner one
RingOrder(c) ==
    [ i \in 1 .. (2 * RENDER_DISTANCE + 1) * (2 * RENDER_DISTANCE + 1) |->
        << c[1] - RENDER_DISTANCE + ((i - 1) \div (2 * RENDER_DISTANCE + 1)),
           c[2] - RENDER_DISTANCE + ((i - 1) % (2 * RENDER_DISTANCE + 1)) >> ]

\* world.js:171-178: the coordinates the build loop calls createChunk for, in
\* the order of the calls
BuildOrder(reg0, c) ==
    SelectSeq(RingOrder(c), LAMBDA q : NeedsBuild(reg0, ChunkKey(q[1], q[2])))

\* world.js:167-191: what one call does to the registry reg0.  The build
\* loop visits every ring coordinate once, so its test against the growing
\* map is a test against the map at entry.
\* world.js:171-178: the chunks the build loop creates, by key
BuildLoop(reg0, c, rnd) ==
    TheOne({ [ k \in { e[1] : e \in todo } |->
                 TheOne({ createChunk(e[2][1], e[2][2], rnd) : e \in { d \in todo : d[1] = k } }) ] :
             todo \in { { e \in { <<ChunkKey(q[1], q[2]), q>> : q \in RingCoords(c) } :
                           NeedsBuild(reg0, e[1]) } } })

\* world.js:180-190: the keys the eviction loop deletes from the registry reg
EvictLoop(reg, c) == { k \in DOMAIN reg : \E q \in { ParseKey(k) } : ShouldEvict(q, c) }

\* an eviction loop without activeChunks.delete(key)
UpdateChunksEndKept(reg, built, evicted) ==
    [ reg |-> reg,
      built |-> built,
      evicted |-> evicted,
      disposed |-> UNION { GroupGeometries(k, reg[k]) : k \in evicted },
      result |-> UpdateChunksResult(built, evicted) ]

UpdateChunksEnd(reg, built, evicted) ==
    [ reg |-> [ k \in DOMAIN reg \ evicted |-> reg[k] ],
      built |-> built,
      evicted |-> evicted,
      disposed |-> UNION { GroupGeometries(k, reg[k]) : k \in evicted },
      result |-> UpdateChunksResult(built, evicted) ]

UpdateChunksOutcome(reg0, pos, rnd) ==
    TheOne({ TheOne({ TheOne({ UpdateChunksEnd(reg, DOMAIN made, evicted) :
                               evicted \in { EvictLoop(reg, CurrentChunk(pos)) } }) :
                      reg \in { made @@ reg0 } }) :
             made \in { BuildLoop(reg0, CurrentChunk(pos), rnd) } })

updateChunks(pos) ==
    \E out \in { UpdateChunksOutcome(activeChunks, pos, rng) } :
       /\ activeChunks' = out.reg
       /\ scene' = (scene \cup out.built) \ out.evicted
       /\ builtNow' = out.built
       /\ buildOrder' = BuildOrder(activeChunks, CurrentChunk(pos))
       /\ evictedNow' = out.evicted
       /\ disposedNow' = out.disposed
       /\ chunksUpdated' = out.result
       /\ calls' = Min(calls + 1, MaxCalls)

(***************************************************************************)
(* config.js: DEFAULTS and PHYSICS_CONSTANTS, in fixed-point units         *)
(***************************************************************************)
MOVE_SPEED == 7 * SCALE
JUMP_FORCE == 22 * SCALE
GRAVITY == 70 * SCALE
MAX_AIR_SPEED == (35 * SCALE) \div 10
FRICTION == 8
AIR_ACCEL == 100
GROUND_ACCEL == 14
PLAYER_HEIGHT == (25 * SCALE) \div 10
CROUCH_HEIGHT == (15 * SCALE) \div 10
STEP_HEIGHT == 1 * SCALE
PLAYER_RADIUS == (4 * SCALE) \div 10

(***************************************************************************)
(* main.js: the fixed time step.  Time is counted in units of which        *)
(* TIME_STEP (1/120 s) has ten.                                            *)
(***************************************************************************)
TIME_STEP == 10
MAX_PHYSICS_STEPS == 4
MAX_FRAME_DELTA == 60

TimeUnits == 120 * TIME_STEP

(***************************************************************************)
(* THREE.Vector3                                                           *)
(***************************************************************************)
Vec(x, y, z) == [x |-> x, y |-> y, z |-> z]

Zero == Vec(0, 0, 0)

VAdd(a, b) == Vec(a.x + b.x, a.y + b.y, a.z + b.z)

VSub(a, b) == Vec(a.x - b.x, a.y - b.y, a.z - b.z)

\* v.multiplyScalar(s) for a fixed-point s
VScale(v, s) == Vec((v.x * s) \div SCALE, (v.y * s) \div SCALE, (v.z * s) \div SCALE)

\* p.addScaledVector(v, delta) for a time delta
AddScaled(p, v, delta) ==
    Vec(p.x + (v.x * delta) \div TimeUnits,
        p.y + (v.y * delta) \div TimeUnits,
        p.z + (v.z * delta) \div TimeUnits)

Length(v) == Isqrt(v.x * v.x + v.y * v.y + v.z * v.z)

\* v.normalize(): the zero vector stays zero
Normalize(v) ==
    \* the length is used four times
    TheOne({ IF len = 0 THEN v
             ELSE Vec((v.x * SCALE) \div len, (v.y * SCALE) \div len, (v.z * SCALE) \div len) :
             len \in { Length(v) } })

Dot(a, b) == (a.x * b.x + a.y * b.y + a.z * b.z) \div SCALE

\* v.lerpVectors(a, b, alpha)
lerpVectors(a, b, alpha) == VAdd(a, VScale(VSub(b, a), alpha))

\* Math.sqrt(dx*dx + dz*dz); beyond FarAway the distance is reported as
\* FarAway, which is farther than any tree reaches
FarAway == 30 * SCALE

Hypot(dx, dz) ==
    IF Abs(dx) >= FarAway \/ Abs(dz) >= FarAway THEN FarAway
    ELSE Min(FarAway, Isqrt(dx * dx + dz * dz))

(***************************************************************************)
(* physics.js: the player                                                  *)
(***************************************************************************)
NoKeys == [w |-> FALSE, a |-> FALSE, s |-> FALSE, d |-> FALSE, space |-> FALSE,
           shift |-> FALSE, crouch |-> FALSE, map |-> FALSE, fly |-> FALSE]

\* camera.quaternion, by the images of the -z axis and of the x axis; the
\* camera starts looking down the -z axis
DefaultView == [fwd |-> Vec(0, 0, -SCALE), right |-> Vec(SCALE, 0, 0)]

\* the player state updatePhysics reads and writes
PlayerNow ==
    [pos |-> playerPos, vel |-> velocity, onGround |-> onGround,
     isUnderwater |-> isUnderwater, currentHeight |-> currentHeight,
     flyVelocity |-> flyVelocity]

\* an accelerate that adds the whole increment, however near the speed is
accelerateUncapped(vel, wishDir, wishSpeed, accel, delta) ==
    LET currentSpeed == Dot(vel, wishDir)
        addSpeed == wishSpeed - currentSpeed
        accelSpeed == (accel * wishSpeed * delta) \div TimeUnits
    IN IF addSpeed <= 0 THEN vel
       ELSE [vel EXCEPT !.x = @ + (accelSpeed * wishDir.x) \div SCALE,
                        !.z = @ + (accelSpeed * wishDir.z) \div SCALE]

\* physics.js accelerate
accelerate(vel, wishDir, wishSpeed, accel, delta) ==
    LET currentSpeed == Dot(vel, wishDir)
        addSpeed == wishSpeed - currentSpeed
        accelSpeed == Min((accel * wishSpeed * delta) \div TimeUnits, addSpeed)
    IN IF addSpeed <= 0 THEN vel
       ELSE [vel EXCEPT !.x = @ + (accelSpeed * wishDir.x) \div SCALE,
                        !.z = @ + (accelSpeed * wishDir.z) \div SCALE]

\* physics.js applyFriction
applyFriction(vel, delta, frictionVal) ==
    TheOne({ IF speed < SCALE \div 10 THEN Zero
             ELSE LET drop == (speed * frictionVal * delta) \div TimeUnits
                      newSpeed == Max(0, speed - drop)
                  IN Vec((vel.x * newSpeed) \div speed, (vel.y * newSpeed) \div speed,
                         (vel.z * newSpeed) \div speed) :
             speed \in { Length(vel) } })

\* the sum of the directions of the pressed movement keys
WishSum(k, forward, right) ==
    VAdd(VAdd(IF k.w THEN forward ELSE Zero, IF k.s THEN VSub(Zero, forward) ELSE Zero),
         VAdd(IF k.d THEN right ELSE Zero, IF k.a THEN VSub(Zero, right) ELSE Zero))

\* physics.js:504-525, the fly branch
FlyStep(p, k, cam, delta) ==
    LET sum == WishSum(k, cam.fwd, cam.right)
        wishDir == Normalize([sum EXCEPT !.y = @ + (IF k.space THEN SCALE ELSE 0)
                                                  - (IF k.crouch THEN SCALE ELSE 0)])
        flySpeed == IF k.shift THEN 2 * MOVE_SPEED ELSE MOVE_SPEED
    IN TheOne({ [p EXCEPT !.flyVelocity = fv,
                          !.pos = AddScaled(p.pos, fv, delta),
                          !.onGround = FALSE,
                          !.vel = Zero] :
                fv \in { VScale(wishDir, flySpeed) } })

\* physics.js:542-543: the speed the pressed keys ask for
TargetSpeed(k) ==
    IF k.crouch THEN MOVE_SPEED \div 2
    ELSE IF k.shift THEN 2 * MOVE_SPEED ELSE MOVE_SPEED

\* a water that does not slow the player on the ground
WishSpeedDry(p, k) ==
    IF p.onGround THEN TargetSpeed(k) ELSE MAX_AIR_SPEED

\* physics.js:545, 551, 558: the speed accelerate is asked to reach
WishSpeed(p, k) ==
    IF p.onGround
    THEN (IF p.isUnderwater THEN (TargetSpeed(k) * 4) \div 10 ELSE TargetSpeed(k))
    ELSE MAX_AIR_SPEED

\* physics.js:546, 559: the gravity the step applies; none on the ground
GravityApplied(p) ==
    IF p.onGround THEN 0
    ELSE IF p.isUnderwater THEN (GRAVITY * 2) \div 10 ELSE GRAVITY

\* a step on the ground that takes no notice of the jump key
MoveVelocityNoJump(p, k, wishDir, delta) ==
    LET currentFriction == IF p.isUnderwater THEN (FRICTION * 25) \div 10 ELSE FRICTION
        airAccel == IF p.isUnderwater THEN GROUND_ACCEL ELSE AIR_ACCEL
    IN IF p.onGround
       THEN TheOne({ accelerate(f, wishDir, WishSpeed(p, k), GROUND_ACCEL, delta) :
                     f \in { applyFriction(p.vel, delta, currentFriction) } })
       ELSE TheOne({ TheOne({ IF p.isUnderwater
                              THEN [v EXCEPT !.y = (vy * (TimeUnits - 2 * delta)) \div TimeUnits]
                              ELSE [v EXCEPT !.y = vy] :
                              vy \in { v.y - (GravityApplied(p) * delta) \div TimeUnits } }) :
                     v \in { accelerate(p.vel, wishDir, WishSpeed(p, k), airAccel, delta) } })

\* physics.js:549-564, the velocity after friction, acceleration, jump and gravity
MoveVelocity(p, k, wishDir, delta) ==
    LET currentFriction == IF p.isUnderwater THEN (FRICTION * 25) \div 10 ELSE FRICTION
        airAccel == IF p.isUnderwater THEN GROUND_ACCEL ELSE AIR_ACCEL
    IN IF p.onGround
       THEN TheOne({ IF k.space THEN [v EXCEPT !.y = JUMP_FORCE] ELSE v :
                     v \in { TheOne({ accelerate(f, wishDir, WishSpeed(p, k), GROUND_ACCEL, delta) :
                                      f \in { applyFriction(p.vel, delta, currentFriction) } }) } })
       ELSE TheOne({ TheOne({ IF p.isUnderwater
                              THEN [v EXCEPT !.y = (vy * (TimeUnits - 2 * delta)) \div TimeUnits]
                              ELSE [v EXCEPT !.y = vy] :
                              vy \in { v.y - (GravityApplied(p) * delta) \div TimeUnits } }) :
                     v \in { accelerate(p.vel, wishDir, WishSpeed(p, k), airAccel, delta) } })

\* physics.js:527-566: crouch height, wish direction, velocity, integration
MoveStep(p, k, cam, delta) ==
    LET targetHeight == IF k.crouch THEN CROUCH_HEIGHT ELSE PLAYER_HEIGHT
        forward == Normalize([cam.fwd EXCEPT !.y = 0])
        right == Normalize([cam.right EXCEPT !.y = 0])
    IN TheOne({ [p EXCEPT !.currentHeight = @ + ((targetHeight - @) * 10 * delta) \div TimeUnits,
                          !.vel = v,
                          !.onGround = p.onGround /\ ~k.space,
                          !.pos = AddScaled(p.pos, v, delta)] :
                v \in { TheOne({ MoveVelocity(p, k, wishDir, delta) :
                                 wishDir \in { Normalize(WishSum(k, forward, right)) } }) } })

\* the trees of one chunk of the registry
ChunkTrees(reg, cx, cz) ==
    TheOne({ IF key \in DOMAIN reg THEN reg[key].trees ELSE <<>> : key \in { ChunkKey(cx, cz) } })

\* a lookup that reads the chunk the player is in and no neighbour
getNearbyTreesOwnChunk(reg, pos) ==
    ChunkTrees(reg, Floor(pos.x, CHUNK_SIZE), Floor(pos.z, CHUNK_SIZE))

\* physics.js getNearbyTrees: the trees of the 3 x 3 chunks around the player
getNearbyTrees(reg, pos) ==
    LET cx == Floor(pos.x, CHUNK_SIZE)
        cz == Floor(pos.z, CHUNK_SIZE)
    IN ChunkTrees(reg, cx - 1, cz - 1) \o ChunkTrees(reg, cx - 1, cz) \o ChunkTrees(reg, cx - 1, cz + 1)
       \o ChunkTrees(reg, cx, cz - 1) \o ChunkTrees(reg, cx, cz) \o ChunkTrees(reg, cx, cz + 1)
       \o ChunkTrees(reg, cx + 1, cz - 1) \o ChunkTrees(reg, cx + 1, cz) \o ChunkTrees(reg, cx + 1, cz + 1)

\* physics.js:623-642: what resolveTreeCollisions derives from a tree record,
\* from t.s || 1.0 and t.hs || 1.0
WidthScale(t) == IF t.s = 0 THEN SCALE ELSE t.s
HeightScale(t) == IF t.hs = 0 THEN SCALE ELSE t.hs

TrunkRadius(t) == (8 * WidthScale(t)) \div 10
TrunkHeight(t) == 3 * HeightScale(t)
LeafStart(t) == 2 * HeightScale(t)
LeafEnd(t) == 9 * HeightScale(t)
LeafMaxRadius(t) == 3 * WidthScale(t)
LeafHeight(t) == 7 * HeightScale(t)

\* physics.js:619-657, one tree of the collision loop, for a player within
\* reach of it; dx, dz and dist are taken before the trunk pushes the player
ResolveNearTree(t, pv, treeBaseY, dx, dz, dist) ==
    LET y == pv.pos.y
        pushDir == Normalize(Vec(dx, 0, dz))
        trunkReach == TrunkRadius(t) + PLAYER_RADIUS
        inTrunk == /\ y >= treeBaseY
                   /\ y <= treeBaseY + TrunkHeight(t) + SCALE
                   /\ dist < trunkReach
        pos1 == IF inTrunk THEN VAdd(pv.pos, VScale(pushDir, trunkReach - dist)) ELSE pv.pos
        leafStart == treeBaseY + LeafStart(t)
        relY == y - leafStart
        r == LeafMaxRadius(t) - (LeafMaxRadius(t) * relY) \div LeafHeight(t)
        horizontalOverlap == (r + PLAYER_RADIUS) - dist
        inLeaves == /\ y > leafStart
                    /\ y < treeBaseY + LeafEnd(t)
                    /\ dist < r + PLAYER_RADIUS
    IN IF ~inLeaves THEN [pv EXCEPT !.pos = pos1]
       ELSE IF relY < horizontalOverlap
            THEN [pos |-> [pos1 EXCEPT !.y = leafStart - SCALE \div 20],
                  vel |-> IF pv.vel.y > 0 THEN [pv.vel EXCEPT !.y = 0] ELSE pv.vel]
            ELSE [pv EXCEPT !.pos = VAdd(pos1, VScale(pushDir, horizontalOverlap))]

\* a tree farther away than its canopy is wide touches neither test of the loop
ResolveTree(t, pv) ==
    TheOne({ IF dist >= LeafMaxRadius(t) + PLAYER_RADIUS THEN pv
             ELSE TheOne({ ResolveNearTree(t, pv, treeBaseY, pv.pos.x - t.x, pv.pos.z - t.z, dist) :
                           treeBaseY \in { getTerrainHeight(t.x, t.z) } }) :
             dist \in { Hypot(pv.pos.x - t.x, pv.pos.z - t.z) } })

\* physics.js:617-658, the collision loop over trees[lo .. hi] in the order
\* of the list: the first half, then the second half on the player the
\* first half left
RECURSIVE ResolveTrees(_, _, _, _)
ResolveTrees(trees, lo, hi, pv) ==
    IF lo > hi THEN pv
    ELSE IF lo = hi THEN ResolveTree(trees[lo], pv)
    ELSE TheOne({ TheOne({ ResolveTrees(trees, mid + 1, hi, q) :
                           q \in { ResolveTrees(trees, lo, mid, pv) } }) :
                  mid \in { (lo + hi) \div 2 } })

\* physics.js resolveTreeCollisions
resolveTreeCollisions(p, reg) ==
    TheOne({ [p EXCEPT !.pos = pv.pos, !.vel = pv.vel] :
             pv \in { TheOne({ ResolveTrees(trees, 1, Len(trees), [pos |-> p.pos, vel |-> p.vel]) :
                               trees \in { getNearbyTrees(reg, p.pos) } }) } })

\* -Infinity
NegInfinity == -1000000000

\* a tree as tall and as wide as its scales were 1.0
UnscaledTreeGeometry(t) ==
    [ trunkRadius |-> (8 * SCALE) \div 10,
      trunkHeight |-> 3 * SCALE,
      leafMaxRadius |-> 3 * SCALE,
      leafHeight |-> 7 * SCALE,
      leafStart |-> 2 * SCALE ]

\* physics.js:672-683: the geometry getTreeHeight derives from a tree record,
\* with its own t.s || 1.0 and t.hs || 1.0
TreeHeightGeometry(t) ==
    [ trunkRadius |-> (8 * (IF t.s = 0 THEN SCALE ELSE t.s)) \div 10,
      trunkHeight |-> 3 * (IF t.hs = 0 THEN SCALE ELSE t.hs),
      leafMaxRadius |-> 3 * (IF t.s = 0 THEN SCALE ELSE t.s),
      leafHeight |-> 7 * (IF t.hs = 0 THEN SCALE ELSE t.hs),
      leafStart |-> 2 * (IF t.hs = 0 THEN SCALE ELSE t.hs) ]

\* physics.js:666-694: the surfaces of one tree under the point, for a player
\* within reach of it
NearTreeTop(t, currentY, treeBaseY, dist) ==
    LET g == TreeHeightGeometry(t)
        trunkTopY == treeBaseY + g.trunkHeight
        heightFromBase == g.leafHeight - (g.leafHeight * dist) \div g.leafMaxRadius
        surfaceY == treeBaseY + g.leafStart + heightFromBase
        onTrunk == dist < g.trunkRadius /\ currentY >= trunkTopY - SCALE \div 2
        onLeaves == dist < g.leafMaxRadius /\ currentY >= surfaceY - SCALE \div 2
    IN Max(IF onTrunk THEN trunkTopY ELSE NegInfinity, IF onLeaves THEN surfaceY ELSE NegInfinity)

TreeTop(t, x, z, currentY) ==
    TheOne({ IF dist >= TreeHeightGeometry(t).leafMaxRadius THEN NegInfinity
             ELSE TheOne({ NearTreeTop(t, currentY, treeBaseY, dist) :
                           treeBaseY \in { getTerrainHeight(t.x, t.z) } }) :
             dist \in { Hypot(x - t.x, z - t.z) } })

Range(seq) == { seq[i] : i \in DOMAIN seq }

SetMax(S) == CHOOSE m \in S : \A n \in S : n <= m

\* physics.js getTreeHeight
getTreeHeight(reg, pos) ==
    TheOne({ SetMax({NegInfinity} \cup { TreeTop(t, pos.x, pos.z, pos.y) : t \in Range(trees) }) :
             trees \in { getNearbyTrees(reg, pos) } })

\* a landing that does not set the grounded flag
LandAirborne(p, groundH) ==
    [p EXCEPT !.pos.y = groundH + p.currentHeight, !.vel.y = 0]

\* physics.js:577-579, 581-583: the player is put on the ground
Land(p, groundH) ==
    [p EXCEPT !.pos.y = groundH + p.currentHeight, !.vel.y = 0, !.onGround = TRUE]

\* a ground test without the step-down branch
GroundStepNoStep(p, k, reg) ==
    TheOne({ IF p.pos.y - (groundH + p.currentHeight) < 0 THEN Land(p, groundH)
             ELSE [p EXCEPT !.onGround = FALSE] :
             groundH \in { Max(getTerrainHeight(p.pos.x, p.pos.z), getTreeHeight(reg, p.pos)) } })

\* a ground test that grounds a player below the ground where they are
GroundStepNoSnap(p, k, reg) ==
    TheOne({ LET distToGround == p.pos.y - (groundH + p.currentHeight)
             IN IF distToGround < 0 THEN [p EXCEPT !.vel.y = 0, !.onGround = TRUE]
                ELSE IF p.onGround /\ distToGround < STEP_HEIGHT /\ p.vel.y <= 0 /\ ~k.space
                     THEN Land(p, groundH)
                     ELSE [p EXCEPT !.onGround = FALSE] :
             groundH \in { Max(getTerrainHeight(p.pos.x, p.pos.z), getTreeHeight(reg, p.pos)) } })

\* physics.js:570-586
GroundStep(p, k, reg) ==
    TheOne({ LET distToGround == p.pos.y - (groundH + p.currentHeight)
             IN IF distToGround < 0 THEN Land(p, groundH)
                ELSE IF p.onGround /\ distToGround < STEP_HEIGHT /\ p.vel.y <= 0 /\ ~k.space
                     THEN Land(p, groundH)
                     ELSE [p EXCEPT !.onGround = FALSE] :
             groundH \in { Max(getTerrainHeight(p.pos.x, p.pos.z), getTreeHeight(reg, p.pos)) } })

\* physics.js:588-591
SafetyNet(p) ==
    IF p.pos.y < -50 * SCALE THEN [p EXCEPT !.pos = Vec(0, 20 * SCALE, 0), !.vel = Zero] ELSE p

SetPlayer(p) ==
    /\ playerPos' = p.pos
    /\ velocity' = p.vel
    /\ onGround' = p.onGround
    /\ isUnderwater' = p.isUnderwater
    /\ currentHeight' = p.currentHeight
    /\ flyVelocity' = p.flyVelocity

\* updatePhysics without the test of controls.isLocked
updatePhysicsUnlocked(delta) ==
    \E p \in { [PlayerNow EXCEPT !.isUnderwater = playerPos.y < -5 * SCALE] } :
      IF keys.fly
      THEN \E q \in { FlyStep(p, keys, camera, delta) } : SetPlayer(q)
      ELSE \E m \in { MoveStep(p, keys, camera, delta) } :
           \E c \in { resolveTreeCollisions(m, activeChunks) } :
           \E g \in { GroundStep(c, keys, activeChunks) } :
           \E q \in { SafetyNet(g) } : SetPlayer(q)

\* physics.js updatePhysics(dt, camera, controls)
updatePhysics(delta) ==
    IF ~isLocked THEN UNCHANGED <<playerPos, physVars>>
    ELSE \E p \in { [PlayerNow EXCEPT !.isUnderwater = playerPos.y < -5 * SCALE] } :
           IF keys.fly
           THEN \E q \in { FlyStep(p, keys, camera, delta) } : SetPlayer(q)
           ELSE \E m \in { MoveStep(p, keys, camera, delta) } :
                \E c \in { resolveTreeCollisions(m, activeChunks) } :
                \E g \in { GroundStep(c, keys, activeChunks) } :
                \E q \in { SafetyNet(g) } : SetPlayer(q)

(***************************************************************************)
(* airParticles.js: the particle system.  Lengths and speeds are           *)
(* fixed-point numbers, durations are counted in time units.               *)
(***************************************************************************)
PARTICLE_REPEL_RADIUS == 5000
PARTICLE_REPEL_STRENGTH == 32
PARTICLE_WIND_MAX == 900
PARTICLE_WIND_CHANGE_INTERVAL == 7200
PARTICLE_SWIRL_BASE == 1200
PARTICLE_MAX_HEIGHT_ABOVE_GROUND == 20000
PARTICLE_MIN_CLEARANCE == 500
PARTICLE_GROUND_SOFT_CLEAR == 1000
PARTICLE_GROUND_PUSH == 8
PARTICLE_WATER_MIN_Y == -4500
PARTICLE_SOFT_CEILING == 800
PARTICLE_CEILING_PUSH == 6
PARTICLE_CLUSTER_COUNT == 12
PARTICLE_CLUSTER_SPREAD == 1500
PARTICLE_CLUSTER_DRIFT_SPEED == 2000
PARTICLE_CLUSTER_DRIFT_CHANGE_INTERVAL == 4800
PARTICLE_FRONT_CONE_COS == 766
PARTICLE_FRONT_AVOID_DISTANCE == 12000
BOID_NEIGHBOR_RADIUS == 3500
BOID_SAMPLE_COUNT == 12
BOID_ALIGN_WEIGHT == 3
BOID_COHESION_WEIGHT == 2
BOID_SEPARATION_WEIGHT == 6
BOID_MAX_SPEED == 12000
TERRAIN_CACHE_GRID == 1250
PARTICLE_MAX_STEP == 120

\* airParticles.js:5, 12: the counts, as config.js sets them
PARTICLE_COUNT == particleSettings.COUNT
PARTICLE_MAX_UPDATES_PER_FRAME == Max(1, particleSettings.MAX_UPDATES_PER_FRAME)

PARTICLE_RADIUS == CHUNK_SIZE * (RENDER_DISTANCE - 1) * SCALE

\* v.length() of a vector that may be long: the squares are formed of the
\* components in a unit coarse enough for them
Norm(v) ==
    TheOne({ IF m <= 20 * SCALE THEN Length(v)
             ELSE IF m <= 200 * SCALE THEN 10 * Length(Vec(v.x \div 10, v.y \div 10, v.z \div 10))
             ELSE 100 * Length(Vec(v.x \div 100, v.y \div 100, v.z \div 100)) :
             m \in { Max(Abs(v.x), Max(Abs(v.y), Abs(v.z))) } })

\* v.normalize() of such a vector
Unit(v) ==
    TheOne({ IF len = 0 THEN v
             ELSE Vec((v.x * SCALE) \div len, (v.y * SCALE) \div len, (v.z * SCALE) \div len) :
             len \in { Norm(v) } })

\* the n-th number Math.random yields in this run, the stream read number
\* by number and cyclically
Rand(n) ==
    TheOne({ CASE n % 4 = 0 -> d.u1 [] n % 4 = 1 -> d.u2 [] n % 4 = 2 -> d.u3 [] OTHER -> d.u4 :
             d \in { rng[((n \div 4) % Len(rng)) + 1] } })

\* numbers of the stream before it repeats
RandPeriod == 4 * Len(rng)

RECURSIVE CbrtSearch(_, _, _)
CbrtSearch(n, lo, hi) ==
    IF lo >= hi THEN lo
    ELSE TheOne({ IF mid * mid * mid <= n THEN CbrtSearch(n, mid, hi) ELSE CbrtSearch(n, lo, mid - 1) :
                  mid \in { (lo + hi + 1) \div 2 } })

\* Math.cbrt of a fixed-point number in [0, 1], rounded down
Cbrt(a) == CbrtSearch(a * SCALE * SCALE, 0, SCALE)

\* cos and sin of the eight angles k * 45 degrees
CosSin ==
    << <<1000, 0>>, <<707, 707>>, <<0, 1000>>, <<-707, 707>>,
       <<-1000, 0>>, <<-707, -707>>, <<0, -1000>>, <<707, -707>> >>

\* airParticles.js randomInSphere, from the numbers n, n + 1, n + 2 of the
\* stream; theta is taken to the 45 degrees below it
randomInSphere(radius, n) ==
    LET cs == CosSin[((Rand(n) * 8) \div SCALE) + 1]
        cosPhi == 2 * Rand(n + 1) - SCALE
        sinPhi == Isqrt(SCALE * SCALE - cosPhi * cosPhi)
    IN TheOne({ TheOne({ Vec((rs * cs[1]) \div SCALE, (r * cosPhi) \div SCALE, (rs * cs[2]) \div SCALE) :
                         rs \in { (r * sinPhi) \div SCALE } }) :
                r \in { (radius * Cbrt(Rand(n + 2))) \div SCALE } })

\* Math.round(a / g) * g
RoundTo(a, g) == ((2 * a + g) \div (2 * g)) * g

\* airParticles.js:34: TERRAIN_CACHE_MAX, as PARTICLE_SETTINGS.HEIGHT_CACHE_MAX
\* sets it (2048 when it is not set): a cache small enough for the lookups
\* of a run to fill it
TERRAIN_CACHE_MAX == 3

\* Math.round(a / g)
RoundDiv(a, g) == (2 * a + g) \div (2 * g)

\* a cache key that leaves qz out
CacheKeyOfX(qx, qz) == NumStr(qx)

\* airParticles.js:71: `${qx}|${qz}`
CacheKey(qx, qz) == NumStr(qx) \o <<"|">> \o NumStr(qz)

\* airParticles.js:68-80, sampleTerrainHeight on the cache as it is: the
\* height returned and the cache the call leaves
sampleTerrainHeightIn(cache, x, z) ==
    LET qx == RoundDiv(x, TERRAIN_CACHE_GRID)
        qz == RoundDiv(z, TERRAIN_CACHE_GRID)
        key == CacheKey(qx, qz)
    IN IF key \in DOMAIN cache THEN [h |-> cache[key], cache |-> cache]
       ELSE TheOne({ [h |-> h,
                      cache |-> (key :> h) @@
                                (IF Cardinality(DOMAIN cache) >= TERRAIN_CACHE_MAX
                                 THEN [k \in {} |-> 0] ELSE cache)] :
                     h \in { getTerrainHeight(qx * TERRAIN_CACHE_GRID, qz * TERRAIN_CACHE_GRID) } })

\* airParticles.js sampleTerrainHeight: the height at the nearest point of
\* the cache grid (the cache keeps what getTerrainHeight returned there)
sampleTerrainHeight(x, z) ==
    getTerrainHeight(RoundTo(x, TERRAIN_CACHE_GRID), RoundTo(z, TERRAIN_CACHE_GRID))

\* a clamp that has the floor and no ceiling
clampParticleHeightFloorOnly(pos) ==
    TheOne({ [pos EXCEPT !.y = Max(@, Max(groundY + PARTICLE_MIN_CLEARANCE, PARTICLE_WATER_MIN_Y))] :
             groundY \in { sampleTerrainHeight(pos.x, pos.z) } })

\* airParticles.js clampParticleHeight
clampParticleHeight(pos) ==
    TheOne({ [pos EXCEPT !.y = Min(Max(@, Max(groundY + PARTICLE_MIN_CLEARANCE, PARTICLE_WATER_MIN_Y)),
                                   groundY + PARTICLE_MAX_HEIGHT_ABOVE_GROUND)] :
             groundY \in { sampleTerrainHeight(pos.x, pos.z) } })

\* airParticles.js getGroundNormal
getGroundNormal(x, z) ==
    LET eps == 600
    IN Unit(Vec(-(sampleTerrainHeight(x + eps, z) - sampleTerrainHeight(x - eps, z)),
                2 * eps,
                -(sampleTerrainHeight(x, z + eps) - sampleTerrainHeight(x, z - eps))))

\* airParticles.js:136, the avoidance radius: maxDist2 = 6 * 6
AvoidanceRadius == 6 * SCALE

\* airParticles.js:144-148: the tree pushes a particle at pos away
AvoidsTree(tree, pos) ==
    /\ Within(pos.x - tree.x, pos.z - tree.z, AvoidanceRadius)
    /\ (pos.x - tree.x) * (pos.x - tree.x) + (pos.z - tree.z) * (pos.z - tree.z) > 100

\* airParticles.js:142-153, one tree of the avoidance loop
TreePush(tree, pos, vel, delta) ==
    IF ~AvoidsTree(tree, pos) THEN vel
    ELSE LET dxp == pos.x - tree.x
             dzp == pos.z - tree.z
             dist2 == dxp * dxp + dzp * dzp
             maxDist2 == AvoidanceRadius * AvoidanceRadius
         IN TheOne({ TheOne({ [vel EXCEPT !.x = @ + (((((dxp * SCALE) \div dist) * push) \div SCALE) * 10 * delta) \div TimeUnits,
                                          !.z = @ + (((((dzp * SCALE) \div dist) * push) \div SCALE) * 10 * delta) \div TimeUnits] :
                              push \in { (maxDist2 - dist2) \div (maxDist2 \div SCALE) } }) :
                     dist \in { Isqrt(dist2) } })

\* airParticles.js:141-154, the avoidance loop over trees[lo .. hi] in the
\* order of the list: the first half, then the second half from the
\* velocity the first half left
RECURSIVE TreePushes(_, _, _, _, _, _)
TreePushes(trees, lo, hi, pos, vel, delta) ==
    IF lo > hi THEN vel
    ELSE IF lo = hi THEN TreePush(trees[lo], pos, vel, delta)
    ELSE TheOne({ TheOne({ TreePushes(trees, mid + 1, hi, pos, w, delta) :
                           w \in { TreePushes(trees, lo, mid, pos, vel, delta) } }) :
                  mid \in { (lo + hi) \div 2 } })

\* airParticles.js obstacleAvoidance: the velocity it leaves
obstacleAvoidance(pos, vel, delta, reg) ==
    TheOne({
      LET clearance == pos.y - groundY
          desiredY == groundY + PARTICLE_MIN_CLEARANCE + 600
          ceilingY == groundY + (PARTICLE_MAX_HEIGHT_ABOVE_GROUND * PARTICLE_SOFT_CEILING) \div SCALE
          push == Min(((PARTICLE_GROUND_SOFT_CLEAR - clearance) * PARTICLE_GROUND_PUSH * delta) \div TimeUnits,
                      (PARTICLE_GROUND_PUSH * SCALE * delta) \div TimeUnits)
          v1 == IF clearance < PARTICLE_GROUND_SOFT_CLEAR
                THEN VAdd(vel, VScale(getGroundNormal(pos.x, pos.z), push)) ELSE vel
          v2 == IF pos.y < desiredY
                THEN [v1 EXCEPT !.y = @ + ((desiredY - pos.y) * PARTICLE_GROUND_PUSH * 35 * delta) \div (100 * TimeUnits)]
                ELSE v1
          v3 == IF pos.y > ceilingY
                THEN [v2 EXCEPT !.y = @ - ((pos.y - ceilingY) * PARTICLE_CEILING_PUSH * delta) \div TimeUnits]
                ELSE v2
      \* the loop passes over every tree it does not push from (continue)
      IN TheOne({ TreePushes(trees, 1, Len(trees), pos, v3, delta) :
                  trees \in { SelectSeq(getNearbyTrees(reg, pos), LAMBDA t : AvoidsTree(t, pos)) } }) :
      groundY \in { sampleTerrainHeight(pos.x, pos.z) } })

\* airParticles.js isInFrontCone
isInFrontCone(pos, cam) ==
    TheOne({ TheOne({ IF dist = 0 THEN TRUE
                      ELSE dist < PARTICLE_FRONT_AVOID_DISTANCE
                           /\ Dot(Unit(off), cam.dir) > PARTICLE_FRONT_CONE_COS :
                      dist \in { Norm(off) } }) :
             off \in { VSub(pos, cam.pos) } })

\* airParticles.js findSpawnNear from try number tries on: the candidate
\* (kept as a sequence, empty while it is null) and the number of the stream
\* the search has got to
RECURSIVE FindSpawn(_, _, _, _, _)
FindSpawn(clusterCenter, cam, n, tries, candidate) ==
    IF tries >= 6 THEN [pos |-> candidate[1], n |-> n]
    ELSE TheOne({ IF ~isInFrontCone(c, cam) THEN [pos |-> c, n |-> n + 3]
                  ELSE FindSpawn(clusterCenter, cam, n + 3, tries + 1,
                                 IF candidate = <<>> THEN <<c>> ELSE candidate) :
                  c \in { VAdd(randomInSphere(PARTICLE_CLUSTER_SPREAD, n), clusterCenter) } })

findSpawnNear(clusterCenter, cam, n) == FindSpawn(clusterCenter, cam, n, 0, <<>>)

\* the velocity of lines 232-234 and 445: (Math.random() - 0.5) * 4.0, thrice
RandomVelocity(n) ==
    Vec((Rand(n) - SCALE \div 2) * 4, (Rand(n + 1) - SCALE \div 2) * 4, (Rand(n + 2) - SCALE \div 2) * 4)

\* airParticles.js getClusterCenter
getClusterCenter(idx, offsets, cam) == VAdd(cam.pos, offsets[(idx % PARTICLE_CLUSTER_COUNT) + 1])

\* airParticles.js:225: the cluster of particle i
ClusterOfFirst(i) == 0

ClusterOf(i) == i % PARTICLE_CLUSTER_COUNT

\* airParticles.js:212-221: the clusters initAirParticles makes, cluster c
\* from the nine numbers of the stream from 9 * c on
InitialClusters ==
    [ offsets |-> [c \in 1 .. PARTICLE_CLUSTER_COUNT |->
                      randomInSphere((PARTICLE_RADIUS * 6) \div 10, 9 * (c - 1))],
      drift |-> [c \in 1 .. PARTICLE_CLUSTER_COUNT |->
                      randomInSphere(PARTICLE_CLUSTER_DRIFT_SPEED, 9 * (c - 1) + 3)],
      timers |-> [c \in 1 .. PARTICLE_CLUSTER_COUNT |->
                      (Rand(9 * (c - 1) + 6) * PARTICLE_CLUSTER_DRIFT_CHANGE_INTERVAL) \div SCALE],
      swirl |-> [c \in 1 .. PARTICLE_CLUSTER_COUNT |->
                      (IF Rand(9 * (c - 1) + 7) < SCALE \div 2 THEN -1 ELSE 1)
                      * ((PARTICLE_SWIRL_BASE * (600 + (Rand(9 * (c - 1) + 8) * 9) \div 10)) \div SCALE)] ]

\* airParticles.js:223-235, the particle loop of initAirParticles from
\* particle i on
RECURSIVE InitialParticles(_, _, _, _)
InitialParticles(i, st, offsets, cam) ==
    IF i >= PARTICLE_COUNT THEN st
    ELSE TheOne({ InitialParticles(i + 1,
                                   [ ids |-> Append(st.ids, ClusterOf(i)),
                                     pos |-> Append(st.pos, clampParticleHeight(spawn.pos)),
                                     vel |-> Append(st.vel, RandomVelocity(spawn.n)),
                                     n |-> spawn.n + 3 ],
                                   offsets, cam) :
                  spawn \in { findSpawnNear(getClusterCenter(ClusterOf(i), offsets, cam), cam, st.n) } })

\* airParticles.js updateWind
updateWind(w, delta, n) ==
    LET due == w.timer - delta <= 0
        drawn == randomInSphere(PARTICLE_WIND_MAX, n)
        target == IF due THEN [drawn EXCEPT !.y = (@ * 2) \div 10] ELSE w.target
        alpha == Min(SCALE, (delta * 500) \div TimeUnits)
    IN [ global |-> VAdd(w.global, VScale(VSub(target, w.global), alpha)),
         target |-> target,
         timer |-> IF due THEN PARTICLE_WIND_CHANGE_INTERVAL ELSE w.timer - delta,
         n |-> IF due THEN n + 3 ELSE n ]

\* airParticles.js updateClusterOffsets from cluster c on
RECURSIVE updateClusterOffsets(_, _, _)
updateClusterOffsets(c, cl, delta) ==
    IF c > PARTICLE_CLUSTER_COUNT THEN cl
    ELSE LET due == cl.timers[c] - delta <= 0
             drift == IF due THEN randomInSphere(PARTICLE_CLUSTER_DRIFT_SPEED, cl.n) ELSE cl.drift[c]
         IN TheOne({ updateClusterOffsets(c + 1,
                        [ offsets |-> [cl.offsets EXCEPT ![c] =
                                          IF Norm(moved) > (PARTICLE_RADIUS * 75) \div 100
                                          THEN VScale(moved, 800) ELSE moved],
                          drift |-> [cl.drift EXCEPT ![c] = drift],
                          timers |-> [cl.timers EXCEPT ![c] =
                                          IF due THEN PARTICLE_CLUSTER_DRIFT_CHANGE_INTERVAL ELSE @ - delta],
                          swirl |-> cl.swirl,
                          n |-> IF due THEN cl.n + 3 ELSE cl.n ],
                        delta) :
                     moved \in { AddScaled(cl.offsets[c], drift, delta) } })

\* airParticles.js:374-396, the neighbour sampled with the number n of the
\* stream, for particle i at pos
SampleNeighbour(i, pos, acc, st, n) ==
    TheOne({ IF idx = i THEN acc
             ELSE TheOne({
                    TheOne({ IF d > 0 /\ d < BOID_NEIGHBOR_RADIUS
                             THEN [ count |-> acc.count + 1,
                                    center |-> VAdd(acc.center, st.pos[idx + 1]),
                                    align |-> VAdd(acc.align, st.vel[idx + 1]),
                                    separate |-> VAdd(acc.separate,
                                        VScale(off, -((((BOID_NEIGHBOR_RADIUS - d) * SCALE) \div BOID_NEIGHBOR_RADIUS)
                                                      * SCALE) \div Max(d, 1))),
                                    last |-> <<st.pos[idx + 1]>> ]
                             ELSE acc :
                             d \in { Norm(off) } }) :
                    off \in { VSub(st.pos[idx + 1], pos) } }) :
             idx \in { (Rand(n) * PARTICLE_COUNT) \div SCALE } })

RECURSIVE SampleNeighbours(_, _, _, _, _, _)
SampleNeighbours(i, pos, acc, st, n, left) ==
    IF left = 0 THEN acc
    ELSE TheOne({ SampleNeighbours(i, pos, a, st, n + 1, left - 1) :
                  a \in { SampleNeighbour(i, pos, acc, st, n) } })

\* airParticles.js:398-409: the velocity the sampled neighbours leave
Flock(pos, vel, acc, stepDt) ==
    IF acc.count = 0 THEN vel
    ELSE LET cohesion == VScale(VSub(Vec(acc.center.x \div acc.count, acc.center.y \div acc.count,
                                         acc.center.z \div acc.count), pos),
                                BOID_COHESION_WEIGHT * SCALE)
             align == VScale(VSub(Vec(acc.align.x \div acc.count, acc.align.y \div acc.count,
                                      acc.align.z \div acc.count), vel),
                             BOID_ALIGN_WEIGHT * SCALE)
             separate == VScale(acc.separate, BOID_SEPARATION_WEIGHT * SCALE)
         IN AddScaled(AddScaled(AddScaled(vel, cohesion, stepDt), align, stepDt), separate, stepDt)

\* airParticles.js:411-417
Swirl(pos, vel, clusterCenter, swirlStrength, stepDt) ==
    TheOne({ IF sv.x = 0 /\ sv.z = 0 THEN vel
             ELSE TheOne({ IF len < 10 THEN vel
                           ELSE AddScaled(vel, VScale(Vec(-((sv.z * SCALE) \div len), 0, (sv.x * SCALE) \div len),
                                                      swirlStrength), stepDt) :
                           len \in { Norm(sv) } }) :
             sv \in { Vec(pos.x - clusterCenter.x, 0, pos.z - clusterCenter.z) } })

\* airParticles.js:419-430: repulsion from the camera or damping and jitter;
\* the velocity and the number of the stream after it
RepelOrJitter(pos, vel, cam, stepDt, n) ==
    TheOne({ TheOne({
        IF dist < PARTICLE_REPEL_RADIUS /\ dist > 0
        THEN [ vel |-> AddScaled(vel, VScale(Unit(off),
                            (((PARTICLE_REPEL_RADIUS - dist) * SCALE) \div PARTICLE_REPEL_RADIUS)
                            * PARTICLE_REPEL_STRENGTH), stepDt),
               n |-> n ]
        ELSE [ vel |-> TheOne({ Vec(damped.x + ((Rand(n) - SCALE \div 2) * 8 * stepDt) \div TimeUnits,
                                    damped.y + ((Rand(n + 1) - SCALE \div 2) * 3 * stepDt) \div TimeUnits,
                                    damped.z + ((Rand(n + 2) - SCALE \div 2) * 8 * stepDt) \div TimeUnits) :
                                damped \in { VScale(vel, SCALE - Min(SCALE, (stepDt * 50) \div TimeUnits)) } }),
               n |-> n + 3 ] :
        dist \in { Norm(off) } }) :
      off \in { VSub(pos, cam.pos) } })

\* airParticles.js:434-437: the speed cap
CapSpeed(vel) ==
    TheOne({ IF speed > BOID_MAX_SPEED
             THEN Vec((vel.x * BOID_MAX_SPEED) \div speed, (vel.y * BOID_MAX_SPEED) \div speed,
                      (vel.z * BOID_MAX_SPEED) \div speed)
             ELSE vel :
             speed \in { Norm(vel) } })

\* airParticles.js:443: the particle is out of the tether
OutOfTether(pos, cam) ==
    TheOne({ TheOne({ \/ distToPlayer > PARTICLE_RADIUS
                      \/ (Dot(Unit(off), cam.dir) < -200 /\ distToPlayer > (PARTICLE_RADIUS * 8) \div 10) :
                      distToPlayer \in { Norm(off) } }) :
             off \in { VSub(pos, cam.pos) } })

\* airParticles.js:444-448 and 449: the particle after the tether test
Tether(pos, vel, clusterCenter, cam, n) ==
    IF OutOfTether(pos, cam)
    THEN TheOne({ [ pos |-> clampParticleHeight(clampParticleHeight(spawn.pos)),
                    vel |-> RandomVelocity(spawn.n),
                    n |-> spawn.n + 3,
                    respawned |-> TRUE ] :
                  spawn \in { findSpawnNear(clusterCenter, cam, n) } })
    ELSE [ pos |-> clampParticleHeight(pos), vel |-> vel, n |-> n, respawned |-> FALSE ]

\* airParticles.js:362-459, the loop body for particle i: env holds what the
\* loop reads and does not write
UpdateParticle(i, st, env) ==
    LET pos == st.pos[i + 1]
        vel == st.vel[i + 1]
        clusterId == st.ids[i + 1]
        neighborSamples == Min(BOID_SAMPLE_COUNT, PARTICLE_COUNT - 1)
    IN TheOne({
         \* _boidNeighbor holds the cluster centre and then every neighbour
         \* in reach: clusterCenter is that one vector
         LET clusterCenter == IF acc.last = <<>>
                              THEN getClusterCenter(clusterId, env.offsets, env.cam)
                              ELSE acc.last[1]
             swirlStrength == IF env.swirl[clusterId + 1] = 0 THEN PARTICLE_SWIRL_BASE
                              ELSE env.swirl[clusterId + 1]
         IN TheOne({ TheOne({
              TheOne({
                TheOne({
                  TheOne({ [st EXCEPT !.pos[i + 1] = out.pos,
                                      !.vel[i + 1] = out.vel,
                                      !.n = out.n,
                                      !.updated = Append(@, i),
                                      !.respawned = IF out.respawned THEN Append(@, i) ELSE @] :
                           out \in { Tether(moved,
                                            [steered EXCEPT !.y = (@ * 98) \div 100],
                                            clusterCenter, env.cam, rj.n) } }) :
                  steered \in { obstacleAvoidance(moved, capped, env.stepDt, env.reg) } }) :
                moved \in { AddScaled(pos, capped, env.stepDt) } }) :
              capped \in { CapSpeed(AddScaled(rj.vel, VScale(env.wind, 650), env.stepDt)) } }) :
           rj \in { RepelOrJitter(pos,
                                     Swirl(pos, Flock(pos, vel, acc, env.stepDt), clusterCenter,
                                           swirlStrength, env.stepDt),
                                  env.cam, env.stepDt, st.n + neighborSamples) } }) :
         acc \in { SampleNeighbours(i, pos,
                                    [count |-> 0, center |-> Zero, align |-> Zero,
                                     separate |-> Zero, last |-> <<>>],
                                    st, st.n, neighborSamples) } })

\* airParticles.js:361: for (i = particleUpdateOffset; i < PARTICLE_COUNT; i += stride)
RECURSIVE ParticleLoop(_, _, _, _)
ParticleLoop(i, stride, st, env) ==
    IF i >= PARTICLE_COUNT THEN st
    ELSE TheOne({ ParticleLoop(i + stride, stride, s, env) : s \in { UpdateParticle(i, st, env) } })

\* Math.ceil(a / b) for positive integers
CeilDiv(a, b) == (a + b - 1) \div b

\* a stride of one: every call visits every particle
StrideOfOne(count, maxUpdates) == 1

\* a stride that rounds down
StrideFloor(count, maxUpdates) == Max(1, count \div Min(maxUpdates, count))

\* airParticles.js:355-356: updatesThisFrame and stride
Stride(count, maxUpdates) == Max(1, CeilDiv(count, Min(maxUpdates, count)))

\* the last k elements of a sequence
LastOf(seq, k) == IF Len(seq) <= k THEN seq ELSE SubSeq(seq, Len(seq) - k + 1, Len(seq))

\* the camera as the particle system reads it: camera.position and
\* camera.getWorldDirection()
View == [pos |-> cameraPosition, dir |-> camera.fwd]

\* airParticles.js updateAirParticles
updateAirParticles(delta) ==
    \E w \in { updateWind(wind, delta, randomCalls) } :
    \E cl \in { updateClusterOffsets(1, [offsets |-> particleClusterOffsets,
                                         drift |-> particleClusterDrift,
                                         timers |-> particleClusterDriftTimer,
                                         swirl |-> particleClusterSwirl,
                                         n |-> w.n], delta) } :
    \E stride \in { Stride(PARTICLE_COUNT, PARTICLE_MAX_UPDATES_PER_FRAME) } :
    \E first \in { (particleUpdateOffset + 1) % stride } :
    \E st \in { ParticleLoop(first, stride,
                             [ids |-> particleClusterIds, pos |-> particlePositions,
                              vel |-> particleVelocities, n |-> cl.n, updated |-> <<>>,
                              respawned |-> <<>>],
                             [cam |-> View, offsets |-> cl.offsets, swirl |-> cl.swirl,
                              wind |-> w.global,
                              stepDt |-> Min(delta * stride, PARTICLE_MAX_STEP),
                              reg |-> activeChunks]) } :
        /\ wind' = [global |-> w.global, target |-> w.target, timer |-> w.timer]
        /\ particleClusterOffsets' = cl.offsets
        /\ particleClusterDrift' = cl.drift
        /\ particleClusterDriftTimer' = cl.timers
        /\ particleUpdateOffset' = first
        /\ particlePositions' = st.pos
        /\ particleVelocities' = st.vel
        /\ particleClusterIds' = st.ids
        /\ randomCalls' = st.n % RandPeriod
        /\ updatedLog' = LastOf(Append(updatedLog, st.updated), PARTICLE_COUNT)
        /\ respawnedLog' = st.respawned
        /\ UNCHANGED <<particleSettings, particleClusterSwirl>>

\* airParticles.js:37-53, 206-237, 465: createAirParticles, which ends with
\* initAirParticles(); the camera is at the origin then (main.js:18)
createAirParticles(settings) ==
    /\ particleSettings = settings
    /\ cameraPosition = Zero
    /\ particleUpdateOffset = 0
    /\ wind = [global |-> Vec(250, 20, 250), target |-> Vec(250, 20, 250),
               timer |-> PARTICLE_WIND_CHANGE_INTERVAL]
    /\ \E cl \in { InitialClusters } :
       \E st \in { InitialParticles(0, [ids |-> <<>>, pos |-> <<>>, vel |-> <<>>,
                                        n |-> 9 * PARTICLE_CLUSTER_COUNT],
                                    cl.offsets, [pos |-> Zero, dir |-> DefaultView.fwd]) } :
          /\ particleClusterOffsets = cl.offsets
          /\ particleClusterDrift = cl.drift
          /\ particleClusterDriftTimer = cl.timers
          /\ particleClusterSwirl = cl.swirl
          /\ particleClusterIds = st.ids
          /\ particlePositions = st.pos
          /\ particleVelocities = st.vel
          /\ randomCalls = st.n % RandPeriod
          /\ respawnedLog = <<>>
    /\ updatedLog = <<>>

(***************************************************************************)
(* world.js:29-55 and MapRenderer.js:75-101: the colour of an elevation    *)
(***************************************************************************)
\* world.js:31-34: the colours of createChunk, 0xd2b48c, 0x4a6b36, 0x1a330a
\* and 0x8a8a8a
c1 == 13808780
c2 == 4877110
c3 == 1717002
c4 == 9079434

\* new THREE.Color(hex): the red, green and blue bytes of the number
HexColour(hex) == <<hex \div 65536, (hex \div 256) % 256, hex % 256>>

\* one colour, unblended
Flat(colour) == [from |-> colour, to |-> colour, t |-> 0]

\* world.js:42-53: the band createChunk colours a vertex of elevation h
\* from: the two colours it blends and the weight t of the second
MeshBand(h) ==
    IF h < -4 * SCALE THEN Flat(HexColour(c1))
    ELSE IF h < 0
         THEN [from |-> HexColour(c1), to |-> HexColour(c2), t |-> ((h + 4 * SCALE) * SCALE) \div (4 * SCALE)]
    ELSE IF h < 8 * SCALE
         THEN [from |-> HexColour(c2), to |-> HexColour(c3), t |-> (h * SCALE) \div (8 * SCALE)]
    ELSE [from |-> HexColour(c3), to |-> HexColour(c4),
          t |-> Min(SCALE, ((h - 8 * SCALE) * SCALE) \div (10 * SCALE))]

\* a map that draws water wherever it draws no blend
MapBandAllWater(h) ==
    IF h < -4 * SCALE
    THEN IF h < -6 * SCALE THEN Flat(<<30, 63, 90>>) ELSE Flat(<<59, 125, 156>>)
    ELSE MeshBand(h)

\* MapRenderer.js:77-101: the band generateTile colours a pixel of
\* elevation h from, the bytes as the source writes them
MapBand(h) ==
    IF h < -4 * SCALE
    THEN IF h < -5 * SCALE
         THEN IF h < -6 * SCALE THEN Flat(<<30, 63, 90>>) ELSE Flat(<<59, 125, 156>>)
         ELSE Flat(<<210, 180, 140>>)
    ELSE IF h < 0
         THEN [from |-> <<210, 180, 140>>, to |-> <<74, 107, 54>>, t |-> ((h + 4 * SCALE) * SCALE) \div (4 * SCALE)]
    ELSE IF h < 8 * SCALE
         THEN [from |-> <<74, 107, 54>>, to |-> <<26, 51, 10>>, t |-> (h * SCALE) \div (8 * SCALE)]
    ELSE [from |-> <<26, 51, 10>>, to |-> <<138, 138, 138>>,
          t |-> Min(SCALE, ((h - 8 * SCALE) * SCALE) \div (10 * SCALE))]

ElevationsPerUnit == 8  \* elevations coloured per unit of height

\* world.js:13-17: getTerrainHeight returns elevations from 0 + (-4) - 10 to
\* 15 + 4 - 10; the ones that are coloured
Elevations ==
    { (k * SCALE) \div ElevationsPerUnit : k \in (-14 * ElevationsPerUnit) .. (9 * ElevationsPerUnit) }

\* a vertex of a chunk mesh and a pixel of a map tile at a point of
\* elevation h are coloured
ColourElevation ==
    /\ \E h \in Elevations :
          colourSample' = [h |-> h, mesh |-> MeshBand(h), map |-> MapBand(h)]
    /\ UNCHANGED <<terrainVars, cacheVars, keyboard, playerPos, chunkVars, physVars, inputVars, frameVars, airVars,
                   cameraPosition>>

(***************************************************************************)
(* The state after the modules are loaded                                  *)
(***************************************************************************)
Spawn == Vec(0, 10 * SCALE, 0)

InitTerrain ==
    /\ noise2D \in createNoise2D
    /\ otherRun = noise2D
    /\ heightLog = [p \in {} |-> 0]
    /\ lastHeight = <<>>
    /\ heightCalls = 0

InitChunks ==
    /\ activeChunks = [k \in {} |-> 0]
    /\ scene = {}
    /\ builtNow = {}
    /\ buildOrder = <<>>
    /\ evictedNow = {}
    /\ disposedNow = {}
    /\ chunksUpdated = "unset"
    /\ rng \in MathRandom
    /\ calls = 0
    /\ stillCalls = 0

InitPlayer ==
    /\ playerPos = Spawn
    /\ velocity = Zero
    /\ onGround = FALSE
    /\ isUnderwater = FALSE
    /\ currentHeight = PLAYER_HEIGHT
    /\ flyVelocity = Zero
    /\ keys = NoKeys
    /\ isLocked = FALSE
    /\ camera = DefaultView

InitFrame ==
    /\ pc = 0
    /\ physicsAccumulator = 0
    /\ stepsThisFrame = 0
    /\ dt = 0
    /\ frameLog = <<>>
    /\ frames = 0
    /\ prevPlayerPos = Spawn

\* config.js exports no PARTICLE_SETTINGS and the counts default to 500 of
\* 500 a frame: every particle is updated in every frame.  Two particles
\* stand for them.
FewParticles == [COUNT |-> 2, MAX_UPDATES_PER_FRAME |-> 2]

\* LargeMap.js:8-12, 85-86: the view of the large map opened at the spawn point
DefaultMapView == [viewX |-> 0, viewZ |-> 0, scale |-> 3 * SCALE]

\* airParticles.js:66, MapRenderer.js:12-18: the caches are empty
InitCaches ==
    /\ heightCache = [k \in {} |-> 0]
    /\ sampled = <<>>
    /\ tileCache = [k \in {} |-> 0]
    /\ generationQueue = <<>>
    /\ mapView = DefaultMapView
    /\ generatedNow = <<>>

InitAir ==
    /\ createAirParticles(FewParticles)
    /\ colourSample = <<>>
    /\ keyboard = [held |-> {}, presses |-> 0]
    /\ InitCaches

Init ==
    /\ InitTerrain
    /\ InitChunks
    /\ InitPlayer
    /\ InitFrame
    /\ obsVel = <<0, 0>>
    /\ InitAir

\* PointerLockControls: the pointer is locked on a click and unlocked on Escape
Lock ==
    /\ ~isLocked
    /\ isLocked' = TRUE
    /\ UNCHANGED <<terrainVars, cacheVars, keyboard, airVars, cameraPosition, colourSample, playerPos, chunkVars, physVars, keys, camera, frameVars>>

Unlock ==
    /\ isLocked
    /\ isLocked' = FALSE
    /\ UNCHANGED <<terrainVars, cacheVars, keyboard, airVars, cameraPosition, colourSample, playerPos, chunkVars, physVars, keys, camera, frameVars>>

(***************************************************************************)
(* The chunk manager under an observer that moves freely: each frame the   *)
(* observer stays, moves by part of a chunk, or is teleported, and         *)
(* updateChunks is called with its position (main.js:129).                 *)
(***************************************************************************)
HalfChunk == (CHUNK_SIZE * SCALE) \div 2

InWorld(p) == Abs(p.x) <= WorldSteps * HalfChunk /\ Abs(p.z) <= WorldSteps * HalfChunk

FarPoint == Vec(20 * CHUNK_SIZE * SCALE + HalfChunk, 20 * SCALE, -13 * CHUNK_SIZE * SCALE)

ObserverSteps == { <<HalfChunk, 0>>, <<-HalfChunk, 0>>, <<HalfChunk, 2 * HalfChunk>> }

ChunkFrame(p) ==
    /\ playerPos' = p
    /\ updateChunks(p)
    /\ stillCalls' = IF p = playerPos THEN Min(stillCalls + 1, MaxCalls) ELSE 0
    /\ UNCHANGED <<terrainVars, cacheVars, keyboard, airVars, cameraPosition, colourSample, rng, obsVel, physVars, inputVars, frameVars>>

\* a frame with the observer at rest
Rest == ChunkFrame(playerPos)

Walk ==
    \E d \in ObserverSteps :
        LET p == [playerPos EXCEPT !.x = @ + d[1], !.z = @ + d[2]]
        IN InWorld(p) /\ ChunkFrame(p)

Teleport ==
    \E p \in {FarPoint, Spawn} : p # playerPos /\ ChunkFrame(p)

NextChunks == Rest \/ Walk \/ Teleport

SpecChunks == Init /\ [][NextChunks]_vars

\* requestAnimationFrame keeps calling the frame, also for an observer at rest
SpecChunksFair == SpecChunks /\ WF_vars(Rest)

(***************************************************************************)
(* The chunk manager under an observer that moves from the spawn point in  *)
(* a straight line, by obsVel each frame.                                  *)
(***************************************************************************)
LineLength == 6         \* half chunks the straight-line walk may get away from the origin

LineVelocities ==
    { <<HalfChunk, 0>>, <<-HalfChunk, 0>>, <<0, HalfChunk>>, <<2 * HalfChunk, 0>>,
      <<HalfChunk, HalfChunk>>, <<2 * HalfChunk, -2 * HalfChunk>>, <<7 * SCALE, 0>>,
      <<4 * HalfChunk, 2 * HalfChunk>>, <<-3 * HalfChunk, HalfChunk>> }

InitLine ==
    /\ InitTerrain
    /\ InitChunks
    /\ InitPlayer
    /\ InitFrame
    /\ obsVel \in LineVelocities
    /\ InitAir

LineFrame ==
    LET p == [playerPos EXCEPT !.x = @ + obsVel[1], !.z = @ + obsVel[2]]
    IN /\ Abs(p.x) <= LineLength * HalfChunk
       /\ Abs(p.z) <= LineLength * HalfChunk
       /\ ChunkFrame(p)

NextLine == LineFrame

SpecLine == InitLine /\ [][NextLine]_vars

(***************************************************************************)
(* main.js frameLoop.  pc is 0 between frames and otherwise the index in   *)
(* FrameOrder of the stage the frame is at.                                *)
(***************************************************************************)
\* a frame that streams the chunks first
FrameOrderChunksFirst == <<"updateChunks", "updatePhysics", "updateAirParticles", "render">>

\* main.js:118-153: the order of the calls of a frame
FrameOrder == <<"updatePhysics", "updateChunks", "updateAirParticles", "render">>

\* a frame delta without the clamp
FrameDeltaUnclamped(gap) == gap

\* main.js:114
FrameDelta(gap) == Min(gap, MAX_FRAME_DELTA)

\* times between two animation frames, as simClock.getDelta() reports them
FrameGaps == { 4, TIME_STEP, 25, 47, 100 }

MaxFrames == 3          \* frames run

Stage == IF pc = 0 THEN "idle" ELSE FrameOrder[pc]

NextStage == IF pc = Len(FrameOrder) THEN 0 ELSE pc + 1

\* main.js:112-116
FrameBegin ==
    /\ pc = 0
    /\ frames < MaxFrames
    /\ \E gap \in FrameGaps :
          /\ dt' = FrameDelta(gap)
          /\ physicsAccumulator' = physicsAccumulator + FrameDelta(gap)
    /\ stepsThisFrame' = 0
    /\ frameLog' = <<>>
    /\ pc' = 1
    /\ frames' = frames + 1
    /\ UNCHANGED <<terrainVars, cacheVars, keyboard, airVars, cameraPosition, colourSample, playerPos, chunkVars, physVars, inputVars, prevPlayerPos>>

\* a physics step that drops the tree lists of the chunks it read
PhysicsStepDropsTrees ==
    /\ Stage = "updatePhysics"
    /\ physicsAccumulator >= TIME_STEP
    /\ prevPlayerPos' = playerPos
    /\ updatePhysics(TIME_STEP)
    /\ activeChunks' = [k \in DOMAIN activeChunks |-> [activeChunks[k] EXCEPT !.trees = <<>>]]
    /\ stepsThisFrame' = stepsThisFrame + 1
    /\ IF stepsThisFrame + 1 >= MAX_PHYSICS_STEPS
       THEN physicsAccumulator' = 0 /\ pc' = NextStage
       ELSE physicsAccumulator' = physicsAccumulator - TIME_STEP /\ pc' = pc
    /\ frameLog' = Append(frameLog, "updatePhysics")
    /\ UNCHANGED <<terrainVars, cacheVars, keyboard, airVars, cameraPosition, colourSample, scene, builtNow, buildOrder, evictedNow, disposedNow, chunksUpdated,
                   rng, calls, stillCalls, obsVel, inputVars, dt, frames>>

\* a turn of the while loop that leaves the loop at the step cap without
\* emptying the accumulator
PhysicsStepKeepsTime ==
    /\ Stage = "updatePhysics"
    /\ physicsAccumulator >= TIME_STEP
    /\ prevPlayerPos' = playerPos
    /\ updatePhysics(TIME_STEP)
    /\ stepsThisFrame' = stepsThisFrame + 1
    /\ physicsAccumulator' = physicsAccumulator - TIME_STEP
    /\ pc' = IF stepsThisFrame + 1 >= MAX_PHYSICS_STEPS THEN NextStage ELSE pc
    /\ frameLog' = Append(frameLog, "updatePhysics")
    /\ UNCHANGED <<terrainVars, cacheVars, keyboard, airVars, cameraPosition, colourSample, chunkVars, inputVars, dt, frames>>

\* main.js:118-127, one turn of the while loop
PhysicsStep ==
    /\ Stage = "updatePhysics"
    /\ physicsAccumulator >= TIME_STEP
    /\ prevPlayerPos' = playerPos
    /\ updatePhysics(TIME_STEP)
    /\ stepsThisFrame' = stepsThisFrame + 1
    /\ IF stepsThisFrame + 1 >= MAX_PHYSICS_STEPS
       THEN physicsAccumulator' = 0 /\ pc' = NextStage
       ELSE physicsAccumulator' = physicsAccumulator - TIME_STEP /\ pc' = pc
    /\ frameLog' = Append(frameLog, "updatePhysics")
    /\ UNCHANGED <<terrainVars, cacheVars, keyboard, airVars, cameraPosition, colourSample, chunkVars, inputVars, dt, frames>>

\* main.js:118, the loop condition fails
PhysicsDone ==
    /\ Stage = "updatePhysics"
    /\ physicsAccumulator < TIME_STEP
    /\ pc' = NextStage
    /\ UNCHANGED <<terrainVars, cacheVars, keyboard, airVars, cameraPosition, colourSample, playerPos, chunkVars, physVars, inputVars,
                   physicsAccumulator, stepsThisFrame, dt, frameLog, frames, prevPlayerPos>>

\* main.js:129
ChunksStep ==
    /\ Stage = "updateChunks"
    /\ updateChunks(playerPos)
    /\ stillCalls' = stillCalls
    /\ frameLog' = Append(frameLog, "updateChunks")
    /\ pc' = NextStage
    /\ UNCHANGED <<terrainVars, cacheVars, keyboard, airVars, cameraPosition, colourSample, playerPos, rng, obsVel, physVars, inputVars,
                   physicsAccumulator, stepsThisFrame, dt, frames, prevPlayerPos>>

\* main.js:147-151
ParticlesStep ==
    /\ Stage = "updateAirParticles"
    /\ updateAirParticles(dt)
    /\ frameLog' = Append(frameLog, "updateAirParticles")
    /\ pc' = NextStage
    /\ UNCHANGED <<terrainVars, cacheVars, keyboard, cameraPosition, colourSample, playerPos, chunkVars, physVars, inputVars,
                   physicsAccumulator, stepsThisFrame, dt, frames, prevPlayerPos>>

\* main.js:153-197; the camera is put between the player's last two positions
Render ==
    /\ Stage = "render"
    /\ cameraPosition' = lerpVectors(prevPlayerPos, playerPos,
                                     Min(SCALE, (physicsAccumulator * SCALE) \div TIME_STEP))
    /\ frameLog' = Append(frameLog, "render")
    /\ pc' = NextStage
    /\ UNCHANGED <<terrainVars, cacheVars, keyboard, airVars, colourSample, playerPos, chunkVars, physVars, inputVars,
                   physicsAccumulator, stepsThisFrame, dt, frames, prevPlayerPos>>

\* pointer lock events arrive between frames
LockEvent == pc = 0 /\ Lock
UnlockEvent == pc = 0 /\ Unlock

NextFrame ==
    \/ FrameBegin
    \/ PhysicsStep
    \/ PhysicsDone
    \/ ChunksStep
    \/ ParticlesStep
    \/ Render
    \/ LockEvent
    \/ UnlockEvent

SpecFrame == Init /\ [][NextFrame]_vars

(***************************************************************************)
(* getTerrainHeight in two runs of the program: this run reads noise2D,    *)
(* the other run the table its own createNoise2D() call drew.              *)
(***************************************************************************)
QueryPoints ==
    { <<0, 0>>, <<37 * SCALE, -12 * SCALE>>, <<-95 * SCALE - 500, 20 * SCALE + 250>>,
      <<250 * SCALE, 130 * SCALE>>, <<SCALE, SCALE>> }

InitTwoRuns ==
    /\ noise2D \in createNoise2D
    /\ otherRun \in createNoise2D
    /\ heightLog = [p \in {} |-> 0]
    /\ lastHeight = <<>>
    /\ heightCalls = 0
    /\ InitChunks
    /\ InitPlayer
    /\ InitFrame
    /\ obsVel = <<0, 0>>
    /\ InitAir

\* a caller asks for the height at a point, in both runs
QueryHeight ==
    \E p \in QueryPoints :
    \E h \in { getTerrainHeight(p[1], p[2]) } :
        /\ lastHeight' = <<p, h, TerrainHeight(otherRun, p[1], p[2])>>
        /\ heightLog' = IF p \in DOMAIN heightLog THEN heightLog ELSE (p :> h) @@ heightLog
        /\ heightCalls' = Min(heightCalls + 1, MaxHeightCalls)
        /\ UNCHANGED <<noise2D, otherRun, cacheVars, keyboard, airVars, cameraPosition, colourSample, playerPos, chunkVars, physVars, inputVars, frameVars>>

NextTerrain == QueryHeight

SpecTerrain == InitTwoRuns /\ [][NextTerrain]_vars

(***************************************************************************)
(* The player left alone at the spawn point: no key is pressed, the        *)
(* physics step runs at the fixed rate, and the pointer is locked or       *)
(* unlocked at any time.  The frames before the first click have streamed  *)
(* the chunks around the spawn point; the player does not leave them.      *)
(***************************************************************************)
InitSettle ==
    /\ InitTerrain
    /\ InitPlayer
    /\ InitFrame
    /\ obsVel = <<0, 0>>
    /\ rng \in MathRandom
    /\ \E out \in { UpdateChunksOutcome([k \in {} |-> 0], Spawn, rng) } :
          /\ activeChunks = out.reg
          /\ scene = out.built \ out.evicted
          /\ builtNow = out.built
          /\ buildOrder = BuildOrder([k \in {} |-> 0], CurrentChunk(Spawn))
          /\ evictedNow = out.evicted
          /\ disposedNow = out.disposed
          /\ chunksUpdated = out.result
    /\ calls = 1
    /\ stillCalls = 1
    /\ InitAir

PhysicsTick ==
    /\ updatePhysics(TIME_STEP)
    /\ UNCHANGED <<terrainVars, cacheVars, keyboard, airVars, cameraPosition, colourSample, chunkVars, inputVars, frameVars>>

NextSettle == PhysicsTick \/ Lock \/ Unlock

SpecSettle == InitSettle /\ [][NextSettle]_vars /\ WF_vars(PhysicsTick)

(***************************************************************************)
(* The player at play.  The chunks around the spawn point are streamed and *)
(* the pointer is locked; the player stands, falls, swims or flies at one  *)
(* of a few places it can get to, keys go down and up, and the frame loop  *)
(* runs one physics step after the other.                                  *)
(***************************************************************************)
MaxTicks == 3           \* physics steps of a run

\* the key codes the keyboard sends, out of those input.js listens to
KeyCodes == {"KeyW", "ShiftLeft", "Space", "KeyC", "KeyN"}

\* onKey without the test of event.repeat: every keydown of KeyN flips fly
onKeyEveryKeydown(code, state, repeat) ==
    keys' = CASE code = "KeyW" -> [keys EXCEPT !.w = state]
              [] code = "KeyA" -> [keys EXCEPT !.a = state]
              [] code = "KeyS" -> [keys EXCEPT !.s = state]
              [] code = "KeyD" -> [keys EXCEPT !.d = state]
              [] code = "Space" -> [keys EXCEPT !.space = state]
              [] code \in {"ShiftLeft", "ShiftRight"} -> [keys EXCEPT !.shift = state]
              [] code = "KeyC" -> [keys EXCEPT !.crouch = state]
              [] code = "KeyM" -> [keys EXCEPT !.map = state]
              [] code = "KeyN" -> IF state THEN [keys EXCEPT !.fly = ~@] ELSE keys
              [] OTHER -> keys

\* input.js onKey(code, state, event), with event.repeat
onKey(code, state, repeat) ==
    keys' = CASE code = "KeyW" -> [keys EXCEPT !.w = state]
              [] code = "KeyA" -> [keys EXCEPT !.a = state]
              [] code = "KeyS" -> [keys EXCEPT !.s = state]
              [] code = "KeyD" -> [keys EXCEPT !.d = state]
              [] code = "Space" -> [keys EXCEPT !.space = state]
              [] code \in {"ShiftLeft", "ShiftRight"} -> [keys EXCEPT !.shift = state]
              [] code = "KeyC" -> [keys EXCEPT !.crouch = state]
              [] code = "KeyM" -> [keys EXCEPT !.map = state]
              [] code = "KeyN" -> IF state /\ ~repeat THEN [keys EXCEPT !.fly = ~@] ELSE keys
              [] OTHER -> keys

\* physics.js:570-572: the ground the step finds under a player at pos
GroundUnder(reg, pos) ==
    Max(getTerrainHeight(pos.x, pos.z), getTreeHeight(reg, pos))

\* a player standing at (x, z), on the highest surface not above yTop
Standing(reg, x, z, yTop, vel) ==
    TheOne({ [pos |-> Vec(x, g + PLAYER_HEIGHT, z), vel |-> vel, onGround |-> TRUE] :
             g \in { GroundUnder(reg, Vec(x, yTop, z)) } })

\* a player in the air at (x, y, z), as flying leaves it
Floating(x, y, z) == [pos |-> Vec(x, y, z), vel |-> Zero, onGround |-> FALSE]

\* places on the terrain: a slope, a lake bed, a plain
TerrainPlaces == { <<-3 * SCALE, 0>>, <<-22 * SCALE, 4 * SCALE>>, <<10 * SCALE, 20 * SCALE>> }

WalkVelocities == { Zero, Vec(MOVE_SPEED, 0, 0), Vec(0, 0, -2 * MOVE_SPEED) }

\* unit directions, in thousandths
Directions == { <<1000, 0>>, <<-1000, 0>>, <<0, 1000>>, <<0, -1000>>,
                <<707, 707>>, <<-707, 707>>, <<707, -707>>, <<-707, -707>> }

\* how far inside the rim of a canopy the player stands
RimInset == 30

\* the chunks whose trees the player climbs
RimChunks == { <<0, 0>>, <<-1, 1>> }

\* the player on the rim of the canopy of a tree near the spawn point,
\* walking outward
RimStarts(reg) ==
    { Standing(reg, t.x + (d[1] * (LeafMaxRadius(t) - RimInset)) \div 1000,
                    t.z + (d[2] * (LeafMaxRadius(t) - RimInset)) \div 1000,
                    FarAway,
                    Vec((d[1] * MOVE_SPEED) \div 1000, 0, (d[2] * MOVE_SPEED) \div 1000)) :
      t \in UNION { Range(ChunkTrees(reg, c[1], c[2])) : c \in RimChunks }, d \in Directions }

\* how far inside the rim of a canopy the player stands under it
CanopyInset == 400

\* the chunks under whose trees the player stands
CanopyChunks == { <<0, 1>> }

\* the player at rest under the canopy of the tree t, in the direction d
\* from its trunk
UnderTree(reg, t, d) ==
    LET x == t.x + (d[1] * (LeafMaxRadius(t) - CanopyInset)) \div 1000
        z == t.z + (d[2] * (LeafMaxRadius(t) - CanopyInset)) \div 1000
    IN Standing(reg, x, z, getTerrainHeight(x, z) + PLAYER_HEIGHT, Zero)

\* the places under a canopy where the player stands on the terrain, the
\* canopy being too high to stand on
UnderCanopy(reg) ==
    { st \in { UnderTree(reg, t, d) :
                 t \in UNION { Range(ChunkTrees(reg, c[1], c[2])) : c \in CanopyChunks },
                 d \in Directions } :
          st.pos.y = getTerrainHeight(st.pos.x, st.pos.z) + PLAYER_HEIGHT }

\* the depths a flying player is left at: next to the water line, in the
\* water, next to the world floor
FlyDepths == { -4950, -6 * SCALE, -49950 }

PlayStarts(reg) ==
    { st \in { Standing(reg, q[1], q[2], getTerrainHeight(q[1], q[2]) + PLAYER_HEIGHT, v) :
               q \in TerrainPlaces, v \in WalkVelocities } :
          GroundUnder(reg, st.pos) + PLAYER_HEIGHT = st.pos.y }
    \cup RimStarts(reg)
    \cup UnderCanopy(reg)
    \cup { Floating(q[1], getTerrainHeight(q[1], q[2]) + PLAYER_HEIGHT + 300, q[2]) : q \in TerrainPlaces }
    \cup { Floating(q[1], y, q[2]) : q \in TerrainPlaces, y \in FlyDepths }

InitPlay ==
    /\ InitTerrain
    /\ InitFrame
    /\ obsVel = <<0, 0>>
    /\ rng \in MathRandom
    /\ \E out \in { UpdateChunksOutcome([k \in {} |-> 0], Spawn, rng) } :
          /\ activeChunks = out.reg
          /\ scene = out.built \ out.evicted
          /\ builtNow = out.built
          /\ buildOrder = BuildOrder([k \in {} |-> 0], CurrentChunk(Spawn))
          /\ evictedNow = out.evicted
          /\ disposedNow = out.disposed
          /\ chunksUpdated = out.result
    /\ calls = 1
    /\ stillCalls = 1
    /\ \E st \in PlayStarts(activeChunks) :
          /\ playerPos = st.pos
          /\ velocity = st.vel
          /\ onGround = st.onGround
    /\ isUnderwater = FALSE
    /\ currentHeight = PLAYER_HEIGHT
    /\ flyVelocity = Zero
    /\ keys = NoKeys
    /\ isLocked = TRUE
    /\ camera = DefaultView
    /\ InitAir

\* a keydown event; the keys of a run go down and up before its first step
KeyDown ==
    /\ frames = 0
    /\ \E code \in KeyCodes, repeat \in BOOLEAN : onKey(code, TRUE, repeat)
    /\ UNCHANGED <<terrainVars, cacheVars, keyboard, airVars, cameraPosition, colourSample, playerPos, chunkVars, physVars, isLocked, camera, frameVars>>

\* a keyup event
KeyUp ==
    /\ frames = 0
    /\ \E code \in KeyCodes : onKey(code, FALSE, FALSE)
    /\ UNCHANGED <<terrainVars, cacheVars, keyboard, airVars, cameraPosition, colourSample, playerPos, chunkVars, physVars, isLocked, camera, frameVars>>

\* main.js:119-120: one physics step of the frame loop
PlayTick ==
    /\ frames < MaxTicks
    /\ prevPlayerPos' = playerPos
    /\ updatePhysics(TIME_STEP)
    /\ frames' = frames + 1
    /\ UNCHANGED <<terrainVars, cacheVars, keyboard, airVars, cameraPosition, colourSample, chunkVars, inputVars, pc, physicsAccumulator,
                   stepsThisFrame, dt, frameLog>>

NextPlay == KeyDown \/ KeyUp \/ PlayTick

SpecPlay == InitPlay /\ [][NextPlay]_vars

(***************************************************************************)
(* The player at play with the pointer let go and taken again: the large   *)
(* map is opened and closed (LargeMap.js:79-91), keys go down and up at    *)
(* any time, and the frame loop goes on calling updatePhysics.             *)
(***************************************************************************)
MaxPauseTicks == 2      \* physics steps of a run

\* the key codes the keyboard sends while the map is toggled
PauseKeyCodes == {"KeyW", "Space"}

\* a keydown or keyup event, between any two steps
PauseKey ==
    /\ \E code \in PauseKeyCodes, state \in BOOLEAN : onKey(code, state, FALSE)
    /\ keys' # keys
    /\ UNCHANGED <<terrainVars, cacheVars, keyboard, airVars, cameraPosition, colourSample, playerPos, chunkVars, physVars, isLocked, camera, frameVars>>

\* main.js:119-120: one physics step of the frame loop, the pointer locked
\* or not
PauseTick ==
    /\ frames < MaxPauseTicks
    /\ prevPlayerPos' = playerPos
    /\ updatePhysics(TIME_STEP)
    /\ frames' = frames + 1
    /\ UNCHANGED <<terrainVars, cacheVars, keyboard, airVars, cameraPosition, colourSample, chunkVars, inputVars, pc, physicsAccumulator,
                   stepsThisFrame, dt, frameLog>>

NextPause == PauseKey \/ Lock \/ Unlock \/ PauseTick

SpecPause == InitPlay /\ [][NextPause]_vars

(***************************************************************************)
(* The particle system in the frame loop.  The pointer is locked and the   *)
(* keys of the run are down when the first frame starts; the frames come   *)
(* at a steady rate, and each runs its physics steps, streams the chunks,  *)
(* updates the particles and puts the camera at the player.                *)
(***************************************************************************)
\* simClock.getDelta() of a steady clock: 35 time units
SteadyGap == 35

\* main.js:112-116 with the steady clock, for a run of maxFrames frames
FrameSteady(maxFrames) ==
    /\ pc = 0
    /\ frames < maxFrames
    /\ dt' = FrameDelta(SteadyGap)
    /\ physicsAccumulator' = physicsAccumulator + FrameDelta(SteadyGap)
    /\ stepsThisFrame' = 0
    /\ frameLog' = <<>>
    /\ pc' = 1
    /\ frames' = frames + 1
    /\ UNCHANGED <<terrainVars, cacheVars, keyboard, airVars, cameraPosition, colourSample, playerPos, chunkVars, physVars, inputVars, prevPlayerPos>>

\* the state after the modules are loaded, with the keys held and the
\* particle settings of the run
InitHeld(held, settings) ==
    /\ InitTerrain
    /\ InitChunks
    /\ InitFrame
    /\ obsVel = <<0, 0>>
    /\ playerPos = Spawn
    /\ velocity = Zero
    /\ onGround = FALSE
    /\ isUnderwater = FALSE
    /\ currentHeight = PLAYER_HEIGHT
    /\ flyVelocity = Zero
    /\ keys = held
    /\ isLocked = TRUE
    /\ camera = DefaultView
    /\ createAirParticles(settings)
    /\ colourSample = <<>>
    /\ keyboard = [held |-> {}, presses |-> 0]
    /\ InitCaches

\* Short runs under every setting of the particle counts.
MaxStrideFrames == 7    \* frames of a short run
MaxParticles == 3       \* PARTICLE_SETTINGS.COUNT and MAX_UPDATES_PER_FRAME go up to it

ParticleSettings ==
    { [COUNT |-> c, MAX_UPDATES_PER_FRAME |-> m] : c \in 1 .. MaxParticles, m \in 1 .. MaxParticles }

InitStride == \E settings \in ParticleSettings : InitHeld(NoKeys, settings)

StrideFrame == FrameSteady(MaxStrideFrames)

NextStride ==
    \/ StrideFrame
    \/ PhysicsStep
    \/ PhysicsDone
    \/ ChunksStep
    \/ ParticlesStep
    \/ Render

SpecStride == InitStride /\ [][NextStride]_vars

\* Long runs: the player sprints forward or flies upward, with the default
\* particles or with one particle more than there are clusters.
MaxParticleFrames == 340  \* frames of a long run

ManyParticles ==
    [COUNT |-> PARTICLE_CLUSTER_COUNT + 1, MAX_UPDATES_PER_FRAME |-> PARTICLE_CLUSTER_COUNT + 1]

HeldKeys ==
    { [NoKeys EXCEPT !.w = TRUE, !.shift = TRUE],
      [NoKeys EXCEPT !.fly = TRUE, !.space = TRUE, !.shift = TRUE] }

InitParticles ==
    \E held \in HeldKeys, settings \in { FewParticles, ManyParticles } : InitHeld(held, settings)

ParticleFrame == FrameSteady(MaxParticleFrames)

NextParticles ==
    \/ ParticleFrame
    \/ PhysicsStep
    \/ PhysicsDone
    \/ ChunksStep
    \/ ParticlesStep
    \/ Render

SpecParticles == InitParticles /\ [][NextParticles]_vars

\* The colours of the elevations of the terrain.
InitBiome == InitHeld(NoKeys, FewParticles)

NextBiome == ColourElevation

SpecBiome == InitBiome /\ [][NextBiome]_vars

(***************************************************************************)
(* The keyboard.  A key that goes down sends one keydown event, further    *)
(* keydown events with event.repeat set for as long as it is held, and one *)
(* keyup event when it is let go.                                          *)
(***************************************************************************)
MaxPresses == 3         \* presses of the fly key in a run

InitKeys == InitHeld(NoKeys, FewParticles)

\* input.js:17-19: the keydown listener, when a key goes down
Press ==
    /\ \E code \in KeyCodes \ keyboard.held :
          /\ code = "KeyN" => keyboard.presses < MaxPresses
          /\ onKey(code, TRUE, FALSE)
          /\ keyboard' = [held |-> keyboard.held \cup {code},
                          presses |-> keyboard.presses + (IF code = "KeyN" THEN 1 ELSE 0)]
    /\ UNCHANGED <<terrainVars, cacheVars, airVars, cameraPosition, colourSample, playerPos, chunkVars,
                   physVars, isLocked, camera, frameVars>>

\* input.js:17-19: the keydown listener, when a held key repeats
AutoRepeat ==
    /\ \E code \in keyboard.held : onKey(code, TRUE, TRUE)
    /\ UNCHANGED <<terrainVars, cacheVars, keyboard, airVars, cameraPosition, colourSample, playerPos,
                   chunkVars, physVars, isLocked, camera, frameVars>>

\* input.js:20: the keyup listener
Release ==
    /\ \E code \in keyboard.held :
          /\ onKey(code, FALSE, FALSE)
          /\ keyboard' = [keyboard EXCEPT !.held = @ \ {code}]
    /\ UNCHANGED <<terrainVars, cacheVars, airVars, cameraPosition, colourSample, playerPos, chunkVars,
                   physVars, isLocked, camera, frameVars>>

NextKeys == Press \/ AutoRepeat \/ Release

SpecKeys == InitKeys /\ [][NextKeys]_vars

(***************************************************************************)
(* accelerate, as updatePhysics calls it: with the wish direction of the   *)
(* keys that are down, the speed they ask for, and the acceleration of the *)
(* ground, the air or the water.                                           *)
(***************************************************************************)
MaxAccelCalls == 3      \* calls of accelerate in a run

\* the keys that set the wish direction and the speed
MoveKeyCodes == {"KeyW", "KeyA", "KeyS", "KeyD", "ShiftLeft", "KeyC"}

\* physics.js:530-540: _wishDir
WishDir(k, cam) ==
    Normalize(WishSum(k, Normalize([cam.fwd EXCEPT !.y = 0]), Normalize([cam.right EXCEPT !.y = 0])))

\* physics.js:551, 557-558: the acceleration passed to accelerate
AccelPassed(p) ==
    IF p.onGround \/ p.isUnderwater THEN GROUND_ACCEL ELSE AIR_ACCEL

\* velocities of a player: at rest, walking, running, falling, near the
\* speed the keys ask for and beyond it
AccelVelocities ==
    { Zero, Vec(MOVE_SPEED, 0, 0), Vec(0, 0, -2 * MOVE_SPEED), Vec(0, -3 * SCALE, -6500),
      Vec(2 * SCALE, 5 * SCALE, -3 * SCALE), Vec(-4900, -20 * SCALE, 4900) }

\* the depths of a player above the water and in it
AccelDepths == { Spawn.y, -6 * SCALE }

InitAccel ==
    /\ InitTerrain
    /\ InitChunks
    /\ InitFrame
    /\ obsVel = <<0, 0>>
    /\ playerPos \in { [Spawn EXCEPT !.y = y] : y \in AccelDepths }
    /\ velocity \in AccelVelocities
    /\ onGround \in BOOLEAN
    /\ isUnderwater = (playerPos.y < -5 * SCALE)
    /\ currentHeight = PLAYER_HEIGHT
    /\ flyVelocity = Zero
    /\ keys = NoKeys
    /\ isLocked = TRUE
    /\ camera = DefaultView
    /\ InitAir

\* the keys of a run go down before its first call
MoveKeyDown ==
    /\ frames = 0
    /\ \E code \in MoveKeyCodes : onKey(code, TRUE, FALSE)
    /\ UNCHANGED <<terrainVars, cacheVars, keyboard, airVars, cameraPosition, colourSample, playerPos, chunkVars,
                   physVars, isLocked, camera, frameVars>>

\* physics.js:551, 558: one call of accelerate
AccelerateCall ==
    /\ frames < MaxAccelCalls
    /\ velocity' = accelerate(velocity, WishDir(keys, camera), WishSpeed(PlayerNow, keys),
                              AccelPassed(PlayerNow), TIME_STEP)
    /\ frames' = frames + 1
    /\ UNCHANGED <<terrainVars, cacheVars, keyboard, airVars, cameraPosition, colourSample, playerPos, chunkVars,
                   onGround, isUnderwater, currentHeight, flyVelocity, inputVars, pc,
                   physicsAccumulator, stepsThisFrame, dt, frameLog, prevPlayerPos>>

NextAccel == MoveKeyDown \/ AccelerateCall

SpecAccel == InitAccel /\ [][NextAccel]_vars

(***************************************************************************)
(* findSpawnNear on its own: cluster 0 has drifted to one of a few places  *)
(* around an observer who stands at the origin and looks down the -z axis, *)
(* and particle 0 is respawned near it time and again, each call reading   *)
(* on in the stream of Math.random.                                        *)
(***************************************************************************)
MaxSpawnCalls == 3      \* calls of findSpawnNear in a run

\* offsets of cluster 0 from the observer: well inside the front cone, on
\* its far end, on its side, and behind the observer
SpawnOffsets ==
    { Vec(0, 0, -6 * SCALE), Vec(0, 0, -12 * SCALE), Vec(5 * SCALE, 0, -6 * SCALE),
      Vec(0, 0, 30 * SCALE) }

\* airParticles.js:101-113: the offset of cluster 0 after some frames of drift
ClusterDrift ==
    /\ \E off \in SpawnOffsets :
          particleClusterOffsets' = [particleClusterOffsets EXCEPT ![1] = off]
    /\ particleClusterOffsets' # particleClusterOffsets
    /\ UNCHANGED <<terrainVars, cacheVars, keyboard, cameraPosition, colourSample, playerPos, chunkVars, physVars,
                   inputVars, frameVars, particleSettings, particleUpdateOffset, particleClusterIds,
                   particlePositions, particleVelocities, particleClusterDrift,
                   particleClusterDriftTimer, particleClusterSwirl, wind, randomCalls, updatedLog,
                   respawnedLog>>

\* airParticles.js:444: newPos = findSpawnNear(clusterCenter) for particle 0,
\* kept as the call returned it
SpawnCall ==
    /\ frames < MaxSpawnCalls
    /\ \E out \in { findSpawnNear(getClusterCenter(0, particleClusterOffsets, View), View, randomCalls) } :
          /\ particlePositions' = [particlePositions EXCEPT ![1] = out.pos]
          /\ randomCalls' = out.n % RandPeriod
    /\ respawnedLog' = <<0>>
    /\ frames' = frames + 1
    /\ UNCHANGED <<terrainVars, cacheVars, keyboard, cameraPosition, colourSample, playerPos, chunkVars, physVars,
                   inputVars, pc, physicsAccumulator, stepsThisFrame, dt, frameLog, prevPlayerPos,
                   particleSettings, particleUpdateOffset, particleClusterIds,
                   particleVelocities, particleClusterOffsets, particleClusterDrift,
                   particleClusterDriftTimer, particleClusterSwirl, wind, updatedLog>>

InitSpawn == InitHeld(NoKeys, FewParticles)

NextSpawn == ClusterDrift \/ SpawnCall

SpecSpawn == InitSpawn /\ [][NextSpawn]_vars

(***************************************************************************)
(* The height cache of the particles on its own: the particle system asks  *)
(* for the height at one point after the other.                            *)
(***************************************************************************)
\* the coordinates asked for: points of one cell of the cache grid, points
\* on both sides of the middle between two cells, and cells enough to fill
\* the cache
CacheCoords == { -625, -600, 0, 400, 1000, 1250, 2500, 3750 }

CachePoints == { <<x, z>> : x \in CacheCoords, z \in { 0, 700 } }

\* airParticles.js:83, 93-96, 116: one call of sampleTerrainHeight
CacheLookup ==
    /\ \E p \in CachePoints :
       \E out \in { sampleTerrainHeightIn(heightCache, p[1], p[2]) } :
          /\ heightCache' = out.cache
          /\ sampled' = [x |-> p[1], z |-> p[2], h |-> out.h, size |-> Cardinality(DOMAIN heightCache)]
    /\ UNCHANGED <<terrainVars, keyboard, airVars, cameraPosition, colourSample, playerPos, chunkVars,
                   physVars, inputVars, frameVars, tileCache, generationQueue, mapView, generatedNow>>

InitCache == InitHeld(NoKeys, FewParticles)

NextCache == CacheLookup

SpecCache == InitCache /\ [][NextCache]_vars

(***************************************************************************)
(* The large map: MapRenderer.js draws the tiles of the view and generates *)
(* the missing ones from a queue, LargeMap.js zooms the view.              *)
(***************************************************************************)
MAX_GENERATIONS_PER_FRAME == 2

\* MapRenderer.js:45-49: the length processQueue trims the queue to
QUEUE_LIMIT == 200

\* LargeMap.js:72-76: the canvas is as large as the window, in pixels
MapCanvas == [width |-> 450, height |-> 450]

\* LargeMap.js:67: the zoom of the view is kept within these scales
MIN_SCALE == SCALE \div 2
MAX_SCALE == 20 * SCALE

\* the turns of the wheel over the map, event.deltaY
WheelTurns == { 834 }

\* MapRenderer.js:22: the key of the tile at (cx, cz)
TileKey(cx, cz) == NumStr(cx) \o <<",">> \o NumStr(cz)

\* MapRenderer.js:62-119: the tile of the chunk at (cx, cz), by the band of
\* its first pixel
generateTile(cx, cz) ==
    [cx |-> cx, cz |-> cz,
     band |-> MapBand(getTerrainHeight(cx * CHUNK_SIZE * SCALE, cz * CHUNK_SIZE * SCALE))]

\* MapRenderer.js:29: a request for the tile at (cx, cz) is in the queue
Queued(queue, cx, cz) == \E i \in DOMAIN queue : queue[i].cx = cx /\ queue[i].cz = cz

\* a getTile that queues a request for every tile it misses
getTileQueuesAgain(cache, queue, cx, cz) ==
    IF TileKey(cx, cz) \in DOMAIN cache THEN queue
    ELSE Append(queue, [cx |-> cx, cz |-> cz, key |-> TileKey(cx, cz)])

\* MapRenderer.js:21-38: the queue getTile leaves when asked for the tile
\* at (cx, cz)
getTile(cache, queue, cx, cz) ==
    IF TileKey(cx, cz) \in DOMAIN cache THEN queue
    ELSE IF Queued(queue, cx, cz) THEN queue
    ELSE Append(queue, [cx |-> cx, cz |-> cz, key |-> TileKey(cx, cz)])

\* MapRenderer.js:52-59: the loop of processQueue, from a cache, a queue,
\* the count of tiles generated and their keys
RECURSIVE ProcessLoop(_, _, _, _)
ProcessLoop(cache, queue, processed, generated) ==
    IF processed >= MAX_GENERATIONS_PER_FRAME \/ queue = <<>>
    THEN [cache |-> cache, queue |-> queue, generated |-> generated]
    ELSE TheOne({ IF req.key \in DOMAIN cache
                  THEN ProcessLoop(cache, rest, processed, generated)
                  ELSE TheOne({ ProcessLoop(cache @@ (req.key :> tile), rest, n, g)
                                : tile \in { generateTile(req.cx, req.cz) },
                                  n \in { processed + 1 }, g \in { Append(generated, req.key) } })
                  : req \in { Head(queue) }, rest \in { Tail(queue) } })

\* a processQueue that empties a queue longer than the limit
processQueueClears(cache, queue) ==
    TheOne({ ProcessLoop(cache, q, 0, <<>>)
             : q \in { IF Len(queue) > QUEUE_LIMIT THEN <<>> ELSE queue } })

\* MapRenderer.js:40-60: the oldest requests beyond the limit are dropped,
\* then tiles are generated from the head of the queue
processQueue(cache, queue) ==
    TheOne({ ProcessLoop(cache, q, 0, <<>>)
             : q \in { IF Len(queue) > QUEUE_LIMIT
                       THEN SubSeq(queue, Len(queue) - QUEUE_LIMIT + 1, Len(queue))
                       ELSE queue } })

\* MapRenderer.js:124-134: the columns and rows of tiles a view shows
VisibleRange(view) ==
    LET halfW == (MapCanvas.width * SCALE * SCALE) \div (2 * view.scale)
        halfH == (MapCanvas.height * SCALE * SCALE) \div (2 * view.scale)
    IN [minCx |-> Floor(view.viewX - halfW, CHUNK_SIZE),
        maxCx |-> Floor(view.viewX + halfW, CHUNK_SIZE),
        minCz |-> Floor(view.viewZ - halfH, CHUNK_SIZE),
        maxCz |-> Floor(view.viewZ + halfH, CHUNK_SIZE)]

\* the tiles of a view
VisibleTiles(view) ==
    LET r == VisibleRange(view)
    IN (r.minCx .. r.maxCx) \X (r.minCz .. r.maxCz)

\* MapRenderer.js:144-146: the k-th tile the loops of draw ask for, row by
\* row, k from 0
RasterTile(r, k) ==
    LET cols == r.maxCx - r.minCx + 1
    IN [cx |-> r.minCx + (k % cols), cz |-> r.minCz + (k \div cols)]

\* MapRenderer.js:144-163: the queue after getTile was asked for the tiles
\* lo .. hi of the raster
RECURSIVE GetTiles(_, _, _, _, _)
GetTiles(cache, queue, r, lo, hi) ==
    IF lo > hi THEN queue
    ELSE IF lo = hi THEN TheOne({ getTile(cache, queue, t.cx, t.cz) : t \in { RasterTile(r, lo) } })
    ELSE TheOne({ TheOne({ GetTiles(cache, q, r, mid + 1, hi) : q \in { GetTiles(cache, queue, r, lo, mid) } })
                  : mid \in { (lo + hi) \div 2 } })

\* MapRenderer.js:121-164: draw(ctx, viewX, viewZ, scale, width, height)
draw(cache, queue, view) ==
    TheOne({ [cache |-> p.cache, generated |-> p.generated,
              queue |-> TheOne({ GetTiles(p.cache, p.queue, r,
                                          0, (r.maxCx - r.minCx + 1) * (r.maxCz - r.minCz + 1) - 1)
                                 : r \in { VisibleRange(view) } })]
             : p \in { processQueue(cache, queue) } })

\* LargeMap.js:93-103: a frame of the open map draws the view
MapDraw ==
    /\ \E d \in { draw(tileCache, generationQueue, mapView) } :
          /\ tileCache' = d.cache
          /\ generationQueue' = d.queue
          /\ generatedNow' = d.generated
    /\ UNCHANGED <<terrainVars, heightCache, sampled, mapView, keyboard, playerPos, chunkVars, physVars,
                   inputVars, frameVars, airVars, cameraPosition, colourSample>>

\* LargeMap.js:63-69: the wheel zooms the view; here the map is zoomed out
\* of its first scale
MapWheel ==
    /\ mapView.scale = DefaultMapView.scale
    /\ \E deltaY \in WheelTurns :
          mapView' = [mapView EXCEPT !.scale =
                         Max(MIN_SCALE, Min(MAX_SCALE, mapView.scale - (deltaY * mapView.scale) \div 1000))]
    /\ UNCHANGED <<terrainVars, heightCache, sampled, tileCache, generationQueue, generatedNow, keyboard,
                   playerPos, chunkVars, physVars, inputVars, frameVars, airVars, cameraPosition, colourSample>>

\* the map draws nothing from Math.random: one stream stands for all
InitMap == InitHeld(NoKeys, FewParticles) /\ rng = AllRandomStreams[1]

NextMap == MapDraw \/ MapWheel

SpecMap == InitMap /\ [][NextMap]_vars

\* requestAnimationFrame keeps calling the draw loop of the open map
SpecMapFair == InitMap /\ [][NextMap]_vars /\ WF_vars(MapDraw)

(***************************************************************************)
(* Chunk streaming: the properties                                         *)
(***************************************************************************)
\* the per-frame budgets the specification names for the streaming manager
MAX_BUILDS_PER_FRAME == 1
MAX_EVICTS_PER_FRAME == 1

Resident == DOMAIN activeChunks

RingArea == (2 * RENDER_DISTANCE + 1) * (2 * RENDER_DISTANCE + 1)

Chebyshev(k, c) == Max(Abs(k[1] - c[1]), Abs(k[2] - c[2]))

\* C1: a single updateChunks call builds at most MAX_BUILDS_PER_FRAME chunks
\* and evicts at most MAX_EVICTS_PER_FRAME chunks.
C1_FrameBudget ==
    /\ Cardinality(builtNow) <= MAX_BUILDS_PER_FRAME
    /\ Cardinality(evictedNow) <= MAX_EVICTS_PER_FRAME

\* every chunk within RENDER_DISTANCE (Chebyshev) of the observer's chunk is
\* active and no chunk beyond RENDER_DISTANCE + 1 is
RingSettled ==
    LET c == CurrentChunk(playerPos)
    IN /\ \A q \in RingCoords(c) : ChunkKey(q[1], q[2]) \in Resident
       /\ \A k \in Resident : Chebyshev(ParseKey(k), c) <= RENDER_DISTANCE + 1

\* C2: if the observer stops moving, then after finitely many updateChunks
\* calls the ring is settled (all chunks within RENDER_DISTANCE active, none
\* beyond RENDER_DISTANCE + 1), and it stays settled.
C2_StationaryConverges == ([]<>(stillCalls = 0)) \/ (<>[]RingSettled)

\* C3: updateChunks never generates a chunk for a coordinate that is in the
\* registry when the call starts, so no coordinate is held twice.
C3_NoRebuild == [][\A k \in builtNow' : k \notin Resident]_vars

C3_Witness ==
    /\ calls >= 2
    /\ builtNow # {}
    /\ Cardinality(builtNow) < RingArea
    /\ Resident \ builtNow # {}

ChunkState(reg, k) == IF k \in DOMAIN reg THEN "Active" ELSE "Absent"

\* the edges of the lifecycle Absent -> QueuedBuild -> Active -> QueuedEvict
\* -> Absent with the cancel edge QueuedEvict -> Active, and staying put
LifecycleEdges ==
    { <<"Absent", "Absent">>, <<"Absent", "QueuedBuild">>, <<"QueuedBuild", "QueuedBuild">>,
      <<"QueuedBuild", "Active">>, <<"Active", "Active">>, <<"Active", "QueuedEvict">>,
      <<"QueuedEvict", "QueuedEvict">>, <<"QueuedEvict", "Absent">>, <<"QueuedEvict", "Active">> }

\* C4: between two consecutive call boundaries every chunk coordinate moves
\* along an edge of the lifecycle: it never becomes Active without having
\* been queued for build, nor Absent from Active without having been queued
\* for eviction.
C4_Lifecycle ==
    [][\A k \in Resident \cup DOMAIN activeChunks' :
          <<ChunkState(activeChunks, k), ChunkState(activeChunks', k)>> \in LifecycleEdges]_vars

\* C5: on a straight-line walk at constant speed, after every updateChunks
\* call the number of resident chunks is at most (2*RENDER_DISTANCE+1)^2 and
\* at least that area less four.
C5_ResidentBound ==
    calls >= 1 => /\ Cardinality(Resident) <= RingArea
                  /\ Cardinality(Resident) >= RingArea - 4

C5_Witness ==
    /\ calls >= 2
    /\ obsVel # <<0, 0>>
    /\ CurrentChunk(playerPos) # CurrentChunk(Spawn)
    /\ evictedNow \ builtNow # {}
    /\ builtNow # {}
    /\ Cardinality(Resident) > RingArea - 4

\* C6: updateChunks returns a boolean, true exactly when the call built or
\* evicted at least one chunk.
C6_ReturnsChanged ==
    calls >= 1 =>
        /\ chunksUpdated \in {"true", "false"}
        /\ (chunksUpdated = "true") <=> (builtNow # {} \/ evictedNow # {})

(***************************************************************************)
(* The frame loop: the properties                                          *)
(***************************************************************************)
Before(log, a, i) == \E j \in 1 .. (i - 1) : log[j] = a

\* C7: in every frame updateChunks runs before any physics step of the
\* frame and before the particle update.
C7_ChunksFirst ==
    \A i \in DOMAIN frameLog :
        frameLog[i] \in {"updatePhysics", "updateAirParticles"} => Before(frameLog, "updateChunks", i)

\* C7, as the program has it: in every frame updateChunks runs after all
\* physics steps of the frame and before the particle update, so the physics
\* steps see the registry the previous frame left and the particle update
\* sees the registry streamed for the position the physics steps produced.
C7_ChunksAfterPhysics ==
    \A i \in DOMAIN frameLog :
        /\ frameLog[i] = "updatePhysics" => ~Before(frameLog, "updateChunks", i)
        /\ frameLog[i] = "updateAirParticles" => Before(frameLog, "updateChunks", i)
        /\ frameLog[i] = "updateChunks" => ~Before(frameLog, "updateChunks", i)

C7_Witness ==
    /\ isLocked
    /\ Len(frameLog) >= 3
    /\ frameLog[1] = "updatePhysics"
    /\ frameLog[Len(frameLog) - 1] = "updateChunks"
    /\ frameLog[Len(frameLog)] = "updateAirParticles"

\* C9: a frame runs at most MAX_PHYSICS_STEPS physics steps and adds at
\* most MAX_FRAME_DELTA to the accumulator, and when the step cap is reached
\* the rest of the accumulator is discarded.
C9_FrameCaps ==
    [][ /\ stepsThisFrame' <= MAX_PHYSICS_STEPS
        /\ physicsAccumulator' - physicsAccumulator <= MAX_FRAME_DELTA
        /\ (stepsThisFrame' >= MAX_PHYSICS_STEPS => physicsAccumulator' = 0) ]_vars

C9_Witness ==
    /\ stepsThisFrame = MAX_PHYSICS_STEPS
    /\ dt = MAX_FRAME_DELTA
    /\ physicsAccumulator = 0
    /\ Stage = "updateChunks"
    /\ frames >= 2

(***************************************************************************)
(* The height field: the properties                                        *)
(***************************************************************************)
SameAsBefore == lastHeight[2] = heightLog[lastHeight[1]]

SameInOtherRun == lastHeight[2] = lastHeight[3]

GroundHeight == Max(getTerrainHeight(playerPos.x, playerPos.z), getTreeHeight(activeChunks, playerPos))

Rested == onGround /\ playerPos.y = GroundHeight + currentHeight

\* C10: from the spawn state, with no key pressed and not flying, ticking
\* updatePhysics at the fixed step, the player eventually is on the ground
\* with y = ground height + collision height, and stays so.
C10_Settles == <>[]Rested

\* C10, as the program has it: the same, provided the pointer is locked from
\* some time on (updatePhysics does nothing while it is not).
C10_SettlesWhenLocked == (<>[]isLocked) => (<>[]Rested)

C10_Witness ==
    /\ isLocked
    /\ Rested
    /\ playerPos.y # Spawn.y
    /\ velocity = Zero

(***************************************************************************)
(* The player at play: the properties                                      *)
(***************************************************************************)
\* the player as the ground test of the coming step finds them: moved, and
\* pushed out of the trees
Collided ==
    resolveTreeCollisions(
        MoveStep([PlayerNow EXCEPT !.isUnderwater = playerPos.y < -5 * SCALE], keys, camera, TIME_STEP),
        activeChunks)

\* groundH of the coming step
StepGroundH == GroundUnder(activeChunks, Collided.pos)

\* a physics step that starts on the ground, runs the walking branch, and
\* neither jumps nor moves upward
GroundedStep ==
    /\ frames' # frames
    /\ isLocked
    /\ ~keys.fly
    /\ onGround
    /\ ~keys.space
    /\ velocity.y <= 0

\* C11: a walking step that starts on the ground, without a jump and without
\* upward motion, and finds the ground under the new position less than
\* STEP_HEIGHT higher or lower than before, ends on the ground with
\* y = new ground height + collision height.
C11_StepSnap ==
    [][ (GroundedStep /\ Abs(StepGroundH - GroundHeight) < STEP_HEIGHT)
            => (onGround' /\ playerPos'.y = StepGroundH + currentHeight') ]_vars

\* C11, as the program has it: the ground may be any amount higher, and
\* lower by less than STEP_HEIGHT less the amount by which the collision
\* height shrinks in the step (the player is crouching down).
C11_StepSnapWithinGap ==
    [][ (GroundedStep /\ (GroundHeight - StepGroundH) + (currentHeight - currentHeight') < STEP_HEIGHT)
            => (onGround' /\ playerPos'.y = StepGroundH + currentHeight') ]_vars

\* the player has walked down a slope of the terrain and stands on it
C11_Witness ==
    /\ frames >= 1
    /\ isLocked /\ ~keys.fly /\ ~keys.space
    /\ currentHeight < PLAYER_HEIGHT
    /\ prevPlayerPos.y = GroundUnder(activeChunks, prevPlayerPos) + PLAYER_HEIGHT
    /\ GroundUnder(activeChunks, prevPlayerPos) - GroundHeight > SCALE \div 10
    /\ onGround
    /\ playerPos.y = GroundHeight + currentHeight

\* a physics step that runs the walking branch
WalkingStep == frames' # frames /\ isLocked /\ ~keys.fly

\* the player as a step that starts under water, or out of it, takes it
Wet == [PlayerNow EXCEPT !.isUnderwater = TRUE]
Dry == [PlayerNow EXCEPT !.isUnderwater = FALSE]

\* C12: in every walking step the underwater flag is true exactly when the
\* step starts with y < -5.0, and a step that starts there, on the ground or
\* in the air, accelerates toward 0.4 times the speed, and applies 0.2 times
\* the gravity, of a step that starts at or above -5.0 with the same inputs.
C12_UnderwaterFactors ==
    [][ WalkingStep =>
          /\ isUnderwater' = (playerPos.y < -5 * SCALE)
          /\ playerPos.y < -5 * SCALE =>
                /\ 10 * WishSpeed(Wet, keys) = 4 * WishSpeed(Dry, keys)
                /\ 10 * GravityApplied(Wet) = 2 * GravityApplied(Dry) ]_vars

\* C12, as the program has it: the flag is as stated; a step that starts
\* under water on the ground accelerates toward 0.4 times the speed of the
\* dry step, and no gravity is applied on the ground; a step that starts
\* under water in the air applies 0.2 times the gravity of the dry step and
\* accelerates toward MAX_AIR_SPEED, as the dry step does.
C12_UnderwaterByMode ==
    [][ WalkingStep =>
          /\ isUnderwater' = (playerPos.y < -5 * SCALE)
          /\ (playerPos.y < -5 * SCALE /\ onGround) =>
                /\ 10 * WishSpeed(Wet, keys) = 4 * WishSpeed(Dry, keys)
                /\ GravityApplied(Wet) = 0 /\ GravityApplied(Dry) = 0
          /\ (playerPos.y < -5 * SCALE /\ ~onGround) =>
                /\ WishSpeed(Wet, keys) = MAX_AIR_SPEED /\ WishSpeed(Dry, keys) = MAX_AIR_SPEED
                /\ 10 * GravityApplied(Wet) = 2 * GravityApplied(Dry)
                /\ GravityApplied(Dry) = GRAVITY ]_vars

\* the player has walked a step on the lake bed
C12_Witness ==
    /\ frames >= 1
    /\ isLocked /\ ~keys.fly /\ keys.w /\ ~keys.shift /\ ~keys.crouch
    /\ prevPlayerPos.y < -5 * SCALE
    /\ prevPlayerPos.z > playerPos.z
    /\ isUnderwater
    /\ onGround
    /\ velocity.z < 0 /\ velocity.z > -(MOVE_SPEED * 4) \div 10

\* the world floor of the safety net
FloorY == -50 * SCALE

\* C13: at every step boundary, in the walking and in the flying mode, the
\* player is not below the world floor: a step that would leave it there
\* puts it back at the spawn point.
C13_AboveFloor == playerPos.y >= FloorY

\* the horizontal distance within which a tree acts on a point: the avoidance
\* radius, wider than every trunk and canopy
InteractionRange == 6 * SCALE

InReach(t, pos) ==
    /\ Abs(t.x - pos.x) <= InteractionRange
    /\ Abs(t.z - pos.z) <= InteractionRange
    /\ (t.x - pos.x) * (t.x - pos.x) + (t.z - pos.z) * (t.z - pos.z) <= InteractionRange * InteractionRange

\* C18: every tree stored in an active chunk and within 6 units (horizontally)
\* of the query position is among the trees the 3 x 3 chunk lookup returns
C18_LookupFindsNearTrees ==
    \A k \in DOMAIN activeChunks : \A t \in Range(activeChunks[k].trees) :
        InReach(t, playerPos) => t \in Range(getNearbyTrees(activeChunks, playerPos))

\* a step has run and a tree within reach of the player is stored in a chunk
\* other than the one the player is in, and the lookup returns it
C18_Witness ==
    /\ frames >= 1
    /\ \E k \in DOMAIN activeChunks : \E t \in Range(activeChunks[k].trees) :
          /\ InReach(t, playerPos)
          /\ ParseKey(k) # CurrentChunk(playerPos)
          /\ t \in Range(getNearbyTrees(activeChunks, playerPos))

(***************************************************************************)
(* The subsystems' state: the properties                                   *)
(***************************************************************************)
\* the step is a call of the named function by the frame loop
Calls(fn) == frameLog' = Append(frameLog, fn)

\* C20: a call of updatePhysics changes nothing but the player's position,
\* velocity, grounded flag, underwater flag and collision height (and the fly
\* velocity): the registry, the tree lists of its chunks, the scene, the
\* noise table and the input state are as before; and a step that changes
\* the registry is a call of updateChunks
C20_PhysicsWritesPlayerOnly ==
    [][ /\ Calls("updatePhysics") => UNCHANGED <<activeChunks, scene, noise2D, keys, isLocked, camera>>
        /\ activeChunks' # activeChunks => Calls("updateChunks") ]_vars

\* a physics step has moved the player while the registry held chunks with
\* trees around the player
C20_Witness ==
    /\ frames >= 2
    /\ Stage = "updatePhysics"
    /\ stepsThisFrame >= 1
    /\ playerPos # prevPlayerPos
    /\ ~keys.fly
    /\ getNearbyTrees(activeChunks, playerPos) # <<>>

(***************************************************************************)
(* The air particles: the properties                                       *)
(***************************************************************************)
\* the stride the contract names: ceil(N / min(maxUpdatesPerFrame, N))
NamedStride ==
    CeilDiv(particleSettings.COUNT,
            Min(particleSettings.MAX_UPDATES_PER_FRAME, particleSettings.COUNT))

\* how often the calls of the list updated particle i
TimesUpdated(i, log) ==
    Cardinality({ ck \in UNION { { <<c, k>> : k \in 1 .. Len(log[c]) } : c \in 1 .. Len(log) } :
                  log[ck[1]][ck[2]] = i })

\* C14: once NamedStride calls of updateAirParticles have been made, the
\* last NamedStride calls have updated every particle index 0 .. N - 1
\* exactly once, whatever the particle count and the update budget
C14_EveryIndexOncePerStride ==
    Len(updatedLog) >= NamedStride =>
        \A i \in 0 .. particleSettings.COUNT - 1 :
            TimesUpdated(i, LastOf(updatedLog, NamedStride)) = 1

\* two calls update the three particles of a run whose budget is two a call,
\* and more calls than one window have been made
C14_Witness ==
    /\ particleSettings = [COUNT |-> 3, MAX_UPDATES_PER_FRAME |-> 2]
    /\ NamedStride = 2
    /\ frames >= 4
    /\ Len(updatedLog) >= 3
    /\ updatedLog[Len(updatedLog)] # updatedLog[Len(updatedLog) - 1]

\* the distance of particle i from the observer, camera.position
DistanceFromObserver(i) == Norm(VSub(particlePositions[i + 1], cameraPosition))

\* the farthest a particle moves in one integration step: the speed cap
\* times the longest step
OneStep == (BOID_MAX_SPEED * PARTICLE_MAX_STEP) \div TimeUnits

\* C15: at every frame boundary every particle is within the tether radius
\* plus one integration step of the observer, and the particles a call of
\* updateAirParticles respawned are within the tether radius of the observer
\* when the call returns
C15_WithinTether ==
    /\ (pc = 0 /\ frames >= 1) =>
           \A i \in 0 .. PARTICLE_COUNT - 1 : DistanceFromObserver(i) <= PARTICLE_RADIUS + OneStep
    /\ Stage = "render" =>
           \A i \in Range(respawnedLog) : DistanceFromObserver(i) <= PARTICLE_RADIUS

\* C16: every particle i has one cluster id, i mod the number of clusters,
\* from initialisation on and after every update and respawn
C16_ClusterIsIndexModCount ==
    /\ Len(particleClusterIds) = PARTICLE_COUNT
    /\ \A i \in 0 .. PARTICLE_COUNT - 1 :
          /\ particleClusterIds[i + 1] \in 0 .. PARTICLE_CLUSTER_COUNT - 1
          /\ particleClusterIds[i + 1] = i % PARTICLE_CLUSTER_COUNT

\* there are more particles than clusters, and the last call has respawned
\* the particle that shares cluster 0 with particle 0
C16_Witness ==
    /\ PARTICLE_COUNT > PARTICLE_CLUSTER_COUNT
    /\ Stage = "render"
    /\ PARTICLE_CLUSTER_COUNT \in Range(respawnedLog)
    /\ particleClusterIds[PARTICLE_CLUSTER_COUNT + 1] = particleClusterIds[1]

(***************************************************************************)
(* The trees as the three paths see them: the properties                   *)
(***************************************************************************)
\* the tree records of the registry
RegisteredTrees == UNION { Range(activeChunks[k].trees) : k \in DOMAIN activeChunks }

\* the collision path treats the point as inside the tree: it moves a
\* player standing there
CollidesWithTree(t, pos) == ResolveTree(t, [pos |-> pos, vel |-> Zero]).pos # pos

\* t.s || 1.0 and t.hs || 1.0, read off the record
ScaleOr1(scale) == IF scale = 0 THEN SCALE ELSE scale

C19_SameBandEverywhere ==
    colourSample # <<>> => colourSample.mesh = colourSample.map

\* C19, corrected: from elevation -5 upward the mesh and the map choose the
\* same band (the same two colours with the same weight); below -5 the mesh
\* keeps the sand colour and the map draws water, shallow down to -6 and
\* deep below
C19_SameBandAboveWater ==
    colourSample # <<>> =>
        IF colourSample.h >= -5 * SCALE
        THEN colourSample.mesh = colourSample.map
        ELSE /\ colourSample.mesh = Flat(<<210, 180, 140>>)
             /\ colourSample.map = IF colourSample.h < -6 * SCALE
                                   THEN Flat(<<30, 63, 90>>) ELSE Flat(<<59, 125, 156>>)

\* an elevation between the water line and the sand line has been coloured
\* as sand by both
C19_Witness ==
    /\ colourSample # <<>>
    /\ colourSample.h \in (-5 * SCALE + 1) .. (-4 * SCALE - 1)
    /\ colourSample.mesh = Flat(<<210, 180, 140>>)
    /\ colourSample.map = colourSample.mesh

(***************************************************************************)
(* The fly key: the properties                                             *)
(***************************************************************************)
\* C21: fly mode is on exactly when the fly key has been pressed an odd
\* number of times: the keydown of a press flips keys.fly, and the repeated
\* keydown events of a held key and the keyup leave it as it is
C21_FlyIsPressParity == keys.fly <=> keyboard.presses % 2 = 1

\* the fly key has been pressed three times and let go, and fly mode is on
C21_Witness == keyboard.presses = MaxPresses /\ "KeyN" \notin keyboard.held /\ keys.fly

(***************************************************************************)
(* Chunk generation: the properties                                        *)
(***************************************************************************)
\* the tree lists of the chunks in the registry
TreeLists == { activeChunks[key].trees : key \in DOMAIN activeChunks }

\* two trees of a list v less than the minimum separation apart
Crowded(v) ==
    \E i, j \in 1 .. Len(v) :
        i < j /\ Within(v[i].x - v[j].x, v[i].z - v[j].z, 5 * SCALE)

\* C22: the tree list of every chunk has at most TREE_COUNT trees, and any
\* two trees of a chunk are at least the minimum separation apart: the
\* square of their distance on the ground plane is at least 25
C22_TreesFewAndApart ==
    \A v \in TreeLists : Len(v) <= TREE_COUNT /\ ~Crowded(v)

(***************************************************************************)
(* The order of the builds: the properties                                 *)
(***************************************************************************)
\* the square of the grid distance of the coordinate q to the observer's chunk
GridDistSq(q) ==
    LET c == CurrentChunk(playerPos)
    IN (q[1] - c[1]) * (q[1] - c[1]) + (q[2] - c[2]) * (q[2] - c[2])

\* C23: the chunks of a call are built nearest first: when a chunk is built,
\* no chunk of the ring that is still missing is nearer to the observer's
\* chunk by the square of the grid distance
C23_NearestFirst ==
    \A i, j \in 1 .. Len(buildOrder) :
        i < j => GridDistSq(buildOrder[i]) <= GridDistSq(buildOrder[j])

(***************************************************************************)
(* The evictions: the properties                                           *)
(***************************************************************************)
\* C24: a call evicts no chunk within RENDER_DISTANCE (Chebyshev) of the
\* observer's chunk; it evicts only chunks at a grid distance above
\* RENDER_DISTANCE + 1, and no chunk is both built and evicted by one call
C24_RingNeverEvicted ==
    LET c == CurrentChunk(playerPos)
    IN /\ \A k \in evictedNow : Chebyshev(ParseKey(k), c) > RENDER_DISTANCE
       /\ \A k \in evictedNow : ChunkDist(ParseKey(k), c) > (RENDER_DISTANCE + 1) * SCALE
       /\ builtNow \cap evictedNow = {}

\* C25: a call made with the observer where the call before it had them, so
\* that the world is up to date, creates no chunk and removes no chunk
C25_UnmovedCallIdle ==
    (calls >= 2 /\ stillCalls >= 1) => (builtNow = {} /\ evictedNow = {})

\* C26: after every call the chunk groups in the scene are the values of
\* the registry: a chunk the call built and kept is in both, and a chunk it
\* evicted is in neither and has had the geometry of its terrain disposed
C26_SceneIsRegistry ==
    /\ scene = DOMAIN activeChunks
    /\ \A k \in builtNow \ evictedNow : k \in scene /\ k \in DOMAIN activeChunks
    /\ \A k \in evictedNow :
          /\ k \notin scene
          /\ k \notin DOMAIN activeChunks
          /\ <<"PlaneGeometry", k>> \in disposedNow

\* a call that built chunks it kept and evicted chunks older calls had built
C26_Witness ==
    /\ calls >= 2
    /\ builtNow \ evictedNow # {}
    /\ evictedNow \ builtNow # {}

\* C27: a call disposes no geometry that a chunk still in the registry after
\* the call uses
C27_DisposesOwnOnly ==
    \A key \in DOMAIN activeChunks :
        disposedNow \cap GroupGeometries(key, activeChunks[key]) = {}

C29_JumpTakesOff ==
    [][ (frames' # frames /\ isLocked /\ ~keys.fly) =>
            /\ (onGround /\ keys.space) => (~onGround' /\ velocity'.y = JUMP_FORCE)
            /\ ~onGround => velocity'.y <= Max(velocity.y, 0) ]_vars

\* the player of a step that starts on the ground with the jump key down,
\* after the impulse: off the ground, moving upward at JUMP_FORCE and moved
\* upward by it, and pushed out of the trees
Jumped ==
    LET m == MoveStep([PlayerNow EXCEPT !.isUnderwater = playerPos.y < -5 * SCALE], keys, camera, TIME_STEP)
    IN resolveTreeCollisions(
           [m EXCEPT !.onGround = FALSE,
                     !.vel = [m.vel EXCEPT !.y = JUMP_FORCE],
                     !.pos = [m.pos EXCEPT !.y = playerPos.y + (JUMP_FORCE * TIME_STEP) \div TimeUnits]],
           activeChunks)

\* C29, as the program has it: a step that does not fly and starts on the
\* ground with the jump key down gives the player the impulse; it ends off
\* the ground, with the vertical velocity JUMP_FORCE, or 0 if a canopy the
\* player rose into has stopped them, unless the player is then below the
\* ground height plus the collision height: the ground test lands that
\* player, on the ground and with no vertical velocity.  A step that starts
\* off the ground gives the player no upward impulse.
C29_JumpUnlessBlocked ==
    [][ (frames' # frames /\ isLocked /\ ~keys.fly) =>
            /\ (onGround /\ keys.space) =>
                  IF Jumped.pos.y < GroundUnder(activeChunks, Jumped.pos) + Jumped.currentHeight
                  THEN onGround' /\ velocity'.y = 0
                  ELSE /\ ~onGround'
                       /\ velocity'.y = Jumped.vel.y
                       /\ Jumped.vel.y \in {0, JUMP_FORCE}
            /\ ~onGround => velocity'.y <= Max(velocity.y, 0) ]_vars

\* a jump has taken the player off the ground
C29_Witness ==
    /\ frames = 1 /\ isLocked /\ ~keys.fly /\ keys.space
    /\ ~onGround
    /\ velocity.y = JUMP_FORCE
    /\ playerPos.y = prevPlayerPos.y + (JUMP_FORCE * TIME_STEP) \div TimeUnits

(***************************************************************************)
(* accelerate: the properties                                              *)
(***************************************************************************)
\* thousandths by which the rounding may move a speed: a wish direction
\* rounded to thousandths is up to three thousandths longer than a unit, and
\* a speed grows by up to 3.5 in a call
RoundingSlack == 12

\* the speed along the wish direction of the keys
SpeedAlongWish(vel) == Dot(vel, WishDir(keys, camera))

\* accel * wishSpeed * dt of the coming call
AccelIncrement == (AccelPassed(PlayerNow) * WishSpeed(PlayerNow, keys) * TIME_STEP) \div TimeUnits

\* C30: a call of accelerate leaves the velocity as it is when the speed
\* along the wish direction has reached the target speed or the wish
\* direction is zero; otherwise that speed grows by the smaller of the
\* increment and what is missing to the target speed, and does not pass the
\* target speed; the vertical velocity stays as it is
C30_AccelerateCapped ==
    [][ frames' # frames =>
          LET target == WishSpeed(PlayerNow, keys)
              before == SpeedAlongWish(velocity)
              after == SpeedAlongWish(velocity')
              growth == Min(AccelIncrement, target - before)
          IN /\ velocity'.y = velocity.y
             /\ WishDir(keys, camera) = Zero => velocity' = velocity
             /\ before >= target => velocity' = velocity
             /\ (before < target /\ WishDir(keys, camera) # Zero) =>
                   /\ after <= target + RoundingSlack
                   /\ Abs(after - (before + growth)) <= RoundingSlack ]_vars

\* a call has brought the speed along the wish direction of a falling
\* player up to the target speed
C30_Witness ==
    /\ frames >= 1
    /\ WishDir(keys, camera) # Zero
    /\ Abs(SpeedAlongWish(velocity) - WishSpeed(PlayerNow, keys)) <= RoundingSlack
    /\ velocity \notin AccelVelocities
    /\ velocity.y # 0

(***************************************************************************)
(* The canopy collision: the properties                                    *)
(***************************************************************************)
\* the player of the coming step as resolveTreeCollisions finds them: moved
\* by the integration, not yet pushed out of the trees
Moved ==
    MoveStep([PlayerNow EXCEPT !.isUnderwater = playerPos.y < -5 * SCALE], keys, camera, TIME_STEP)

\* physics.js:638-647: what the canopy test of the collision loop measures
\* of a tree and a player position
CanopyOverlap(t, pos) ==
    LET treeBaseY == getTerrainHeight(t.x, t.z)
        leafStart == treeBaseY + LeafStart(t)
        relY == pos.y - leafStart
        r == LeafMaxRadius(t) - (LeafMaxRadius(t) * relY) \div LeafHeight(t)
        dist == Hypot(pos.x - t.x, pos.z - t.z)
    IN [ leafStart |-> leafStart,
         relY |-> relY,
         horizontalOverlap |-> (r + PLAYER_RADIUS) - dist,
         inside |-> /\ pos.y > leafStart
                    /\ pos.y < treeBaseY + LeafEnd(t)
                    /\ dist < r + PLAYER_RADIUS ]

\* the trees of the collision loop whose canopy the moved player overlaps
CanopiesHit ==
    { t \in Range(getNearbyTrees(activeChunks, Moved.pos)) :
        /\ Hypot(Moved.pos.x - t.x, Moved.pos.z - t.z) < LeafMaxRadius(t) + PLAYER_RADIUS
        /\ CanopyOverlap(t, Moved.pos).inside }

\* the moved player after the collision test of one tree
AfterTree(t) == ResolveTree(t, [pos |-> Moved.pos, vel |-> Moved.vel])

\* thousandths by which the rounding of the push direction to thousandths
\* may move the length of a push
PushSlack == 3

\* the horizontal distance between two positions
Shift(a, b) == Hypot(a.x - b.x, a.z - b.z)

\* C31: in a walking step, for a tree whose canopy cone the moved player
\* overlaps: if the height above the canopy start is less than the horizontal
\* overlap, the collision test of that tree leaves the player on the canopy,
\* not below its start, and not moving upward; otherwise it moves the player
\* horizontally by the overlap (within the rounding of the push direction)
\* and leaves the height and the velocity alone
C31_StandsOnCanopyOrPushed ==
    [][ (frames' # frames /\ isLocked /\ ~keys.fly) =>
            \A t \in CanopiesHit :
               LET c == CanopyOverlap(t, Moved.pos)
               IN IF c.relY < c.horizontalOverlap
                  THEN /\ AfterTree(t).pos.y >= c.leafStart
                       /\ AfterTree(t).vel.y <= 0
                  ELSE /\ AfterTree(t).pos.y = Moved.pos.y
                       /\ AfterTree(t).vel = Moved.vel
                       /\ Abs(Shift(AfterTree(t).pos, Moved.pos) - c.horizontalOverlap) <= PushSlack ]_vars

(***************************************************************************)
(* The pointer not locked: the properties                                  *)
(***************************************************************************)
\* C32: a physics step taken while the pointer is not locked leaves the
\* position, the velocity, the grounded flag, the underwater flag and the
\* collision height as they were, whatever keys are down
C32_UnlockedStepIdle ==
    [][ (frames' # frames /\ ~isLocked) =>
            UNCHANGED <<playerPos, velocity, onGround, isUnderwater, currentHeight>> ]_vars

\* steps have been taken with the pointer not locked and keys down, by a
\* player who walks: the last step has not moved them
C32_Witness ==
    /\ frames = MaxPauseTicks
    /\ ~isLocked
    /\ keys.w /\ keys.space
    /\ onGround
    /\ velocity # Zero
    /\ prevPlayerPos = playerPos

(***************************************************************************)
(* The accumulator of the frame loop: the properties                       *)
(***************************************************************************)
\* C33: once the physics loop of a frame is over, and until the next frame
\* begins, the accumulator is at least 0 and less than TIME_STEP, so that
\* the interpolation factor accumulator / TIME_STEP is at least 0 and less
\* than 1; a loop that ran MAX_PHYSICS_STEPS steps leaves the accumulator 0
C33_AccumulatorWithinStep ==
    Stage # "updatePhysics" =>
        /\ 0 <= physicsAccumulator
        /\ physicsAccumulator < TIME_STEP
        /\ (physicsAccumulator * SCALE) \div TIME_STEP < SCALE
        /\ stepsThisFrame >= MAX_PHYSICS_STEPS => physicsAccumulator = 0

\* a frame as long as the clamp allows has run into the step cap: the loop
\* is over and has thrown away the time it did not step through
C33_Witness ==
    /\ Stage = "render"
    /\ dt = MAX_FRAME_DELTA
    /\ stepsThisFrame = MAX_PHYSICS_STEPS
    /\ physicsAccumulator = 0

(***************************************************************************)
(* The update budget of the particles: the properties                      *)
(***************************************************************************)
\* C34: no call of updateAirParticles has updated more particles than
\* PARTICLE_MAX_UPDATES_PER_FRAME, whatever the particle count, the update
\* budget and the offset the call started at
C34_AtMostBudgetPerCall ==
    \A c \in 1 .. Len(updatedLog) : Len(updatedLog[c]) <= PARTICLE_MAX_UPDATES_PER_FRAME

\* three particles under a budget of two: the last call updated two of them,
\* the budget, and the call before it the third
C34_Witness ==
    /\ particleSettings = [COUNT |-> 3, MAX_UPDATES_PER_FRAME |-> 2]
    /\ Len(updatedLog) >= 2
    /\ Len(updatedLog[Len(updatedLog)]) = 2
    /\ Len(updatedLog[Len(updatedLog) - 1]) = 1

(***************************************************************************)
(* The height of the particles: the properties                             *)
(***************************************************************************)
\* the terrain height sampled under particle i, where it is stored
GroundUnderParticle(i) ==
    sampleTerrainHeight(particlePositions[i + 1].x, particlePositions[i + 1].z)

\* C35: the stored height of every particle, from initialisation on and
\* after every update and respawn, is at least the higher of the sampled
\* ground plus PARTICLE_MIN_CLEARANCE and of PARTICLE_WATER_MIN_Y, and at
\* most the sampled ground plus PARTICLE_MAX_HEIGHT_ABOVE_GROUND
C35_HeightWithinBand ==
    \A i \in 0 .. PARTICLE_COUNT - 1 :
        /\ particlePositions[i + 1].y >=
              Max(GroundUnderParticle(i) + PARTICLE_MIN_CLEARANCE, PARTICLE_WATER_MIN_Y)
        /\ particlePositions[i + 1].y <=
              GroundUnderParticle(i) + PARTICLE_MAX_HEIGHT_ABOVE_GROUND

\* the last call has respawned a particle near an observer high above the
\* ground, and the clamp has put it on the ceiling of the band
C35_Witness ==
    /\ Stage = "render"
    /\ \E i \in Range(respawnedLog) :
          /\ particlePositions[i + 1].y = GroundUnderParticle(i) + PARTICLE_MAX_HEIGHT_ABOVE_GROUND
          /\ cameraPosition.y > particlePositions[i + 1].y + PARTICLE_MAX_HEIGHT_ABOVE_GROUND

(***************************************************************************)
(* findSpawnNear: the properties                                           *)
(***************************************************************************)
\* tries of findSpawnNear
SpawnTries == 6

\* the candidate of try k of the coming call of findSpawnNear
TriedCandidate(k) ==
    VAdd(randomInSphere(PARTICLE_CLUSTER_SPREAD, randomCalls + 3 * k),
         getClusterCenter(0, particleClusterOffsets, View))

\* the tries of the coming call whose candidate is outside the front cone
TriesOutside == { k \in 0 .. SpawnTries - 1 : ~isInFrontCone(TriedCandidate(k), View) }

C37_CacheTransparentAndBounded ==
    /\ sampled # <<>> =>
          sampled.h = getTerrainHeight(RoundDiv(sampled.x, TERRAIN_CACHE_GRID) * TERRAIN_CACHE_GRID,
                                       RoundDiv(sampled.z, TERRAIN_CACHE_GRID) * TERRAIN_CACHE_GRID)
    /\ Cardinality(DOMAIN heightCache) <= TERRAIN_CACHE_MAX

\* the last lookup found the cache full, cleared it, and was answered by
\* getTerrainHeight at a point that is not a point of the grid
C37_Witness ==
    /\ sampled # <<>>
    /\ sampled.size = TERRAIN_CACHE_MAX
    /\ Cardinality(DOMAIN heightCache) = 1
    /\ sampled.x = 400 /\ sampled.z = 700

(***************************************************************************)
(* The large map: the properties                                           *)
(***************************************************************************)
\* the tiles of the view are all in the tile cache
AllVisibleCached ==
    \A t \in VisibleTiles(mapView) : TileKey(t[1], t[2]) \in DOMAIN tileCache

\* C38: a call of draw generates at most MAX_GENERATIONS_PER_FRAME tiles,
\* however many tiles are visible or queued, none of them a tile whose key
\* was in the tile cache already, and it leaves no tile coordinate twice in
\* the generation queue.
C38_GenerationBudgeted ==
    [][ mapView' = mapView =>
           /\ Len(generatedNow') <= MAX_GENERATIONS_PER_FRAME
           /\ Cardinality(DOMAIN tileCache') <= Cardinality(DOMAIN tileCache) + MAX_GENERATIONS_PER_FRAME
           /\ \A i \in DOMAIN generatedNow' : generatedNow'[i] \notin DOMAIN tileCache
           /\ \A i, j \in DOMAIN generatedNow' : i # j => generatedNow'[i] # generatedNow'[j]
           /\ \A i, j \in DOMAIN generationQueue' :
                 i # j => ~(/\ generationQueue'[i].cx = generationQueue'[j].cx
                            /\ generationQueue'[i].cz = generationQueue'[j].cz) ]_vars

\* a draw has generated its two tiles with more than the limit of requests
\* left in the queue, all of tiles of the view
C38_Witness ==
    /\ Len(generatedNow) = MAX_GENERATIONS_PER_FRAME
    /\ Len(generationQueue) > QUEUE_LIMIT
    /\ Cardinality(VisibleTiles(mapView)) > Len(generationQueue)
    /\ tileCache # <<>>

\* C39: with draw called again and again on a view that stays as it is,
\* every tile of the view is in the tile cache from some draw on, also when
\* the view has more tiles than the queue is trimmed to.  (The view of the
\* runs changes once at most, so it stays as it is from some step on.)
C39_VisibleEventuallyCached == <>[]AllVisibleCached

\* a view of more tiles than the queue is trimmed to, all of them cached
C39_Witness ==
    /\ Cardinality(VisibleTiles(mapView)) > QUEUE_LIMIT
    /\ AllVisibleCached
    /\ generationQueue = <<>>

====
